---- MODULE Spec2Model ----
(***************************************************************************)
(* Model of the lead-scraper repository: the scoring functions, the SQLite *)
(* lead stores and their write paths, the collection runs and the Google   *)
(* Sheets sync of                                                          *)
(*   realtime_linkedin_scraper.py, apollo_linkedin_scraper.py,             *)
(*   apify_sales_lead/apify_linkedin_scraper.py,                           *)
(*   apify_sales_lead/apify_multi_scraper.py, complete_scraper_gsheets.py  *)
(*   and ai_hardware_sales_platform.py.                                    *)
(*                                                                         *)
(* Text is modelled as a sequence of one-character strings, so that        *)
(* Python's `in`, lower(), strip() and split() are computed character by   *)
(* character.  SQL NULL / Python None is the value NULL.                   *)
(***************************************************************************)
EXTENDS Integers, Sequences, FiniteSets, TLC

VARIABLES
    lead,          \* scoring: the lead whose score is computed
    result,        \* scoring: function, score and tier of the last call, or NoCall
    ncalls,        \* scoring: calls made on the current lead
    program,       \* which script owns the database file
    leads,         \* the rows of the leads table, in rowid order
    cand,          \* the candidate last submitted: the key read from it and its name
    out,           \* what became of it: new, duplicate, rejected, failed, error
    source,        \* run: what the external source returns, the same in every run
    runNo,         \* run: number of the current run, 0 before the first
    pc,            \* run: where the entry point is
    bi,            \* run: index of the current search / result page / dataset
    pos,           \* run: index of the next candidate in it
    delta,         \* run: keys of the leads newly stored by this run (new_leads)
    leads_collected, \* run: self.leads_collected of the Apollo and Apify scrapers
    attempts,      \* run: attempts of collect_daily_leads
    sheet,         \* sink: keys of the data rows of the worksheet
    handed,        \* sink: whether this run called the sink with rows, which, and
                   \*       whether the call succeeded
    sinkWrites,    \* sink: write calls (clear, update, append_rows) of this run
    syncedBefore,  \* sink: keys written to the worksheet by earlier runs
    retries,       \* run: depth of the recursion of search_people on 429 answers
    ops,           \* run: the calls made for the last candidate, in their order
    answer,        \* run: what the last call of the source adapter returned
    slept,         \* run: time.sleep has run since the last external request
    endless,       \* run: the source reports further pages after every page
    conns,         \* concurrency: per collector, its position, key, outcome and calls
    dblock,        \* concurrency: the collector holding the write lock, 0 for none
    pending,       \* concurrency: the rows inserted but not committed by the lock holder
    reported,      \* concurrency: keys of the calls that reported a new lead
    phone,         \* contact: the phone number looked at
    whatsapp,      \* contact: function and result of the last WhatsApp check, or NoCall
    connections_sent_today, \* outreach: the counter of LinkedInAutomation
    top_leads,     \* outreach: linkedin_connection_sent of each lead of top_leads
    ti,            \* outreach: index of the next lead of `for lead in top_leads`
    success,       \* outreach: what the last send_connection_request returned
    gens,          \* outreach: calls of daily_lead_generation so far
    lpc,           \* outreach: whether daily_lead_generation is in its step 5
    responses,     \* polling: the answers the status endpoint gives, in order
    polled         \* polling: function and outcome of the last wait, or NoCall

scoreVars == <<lead, result, ncalls>>
storeVars == <<program, leads, cand, out>>
runVars == <<source, runNo, pc, bi, pos, delta, leads_collected, attempts,
             sheet, handed, sinkWrites, syncedBefore, retries, slept, endless, ops,
             answer>>
concVars == <<conns, dblock, pending, reported>>
phoneVars == <<phone, whatsapp>>
linkVars == <<connections_sent_today, top_leads, ti, success, gens, lpc>>
pollVars == <<responses, polled>>
sideVars == <<phoneVars, linkVars, pollVars>>
vars == <<lead, result, ncalls, program, leads, cand, out,
          source, runNo, pc, bi, pos, delta, leads_collected, attempts,
          sheet, handed, sinkWrites, syncedBefore, retries, slept, endless, ops, answer,
          conns, dblock, pending, reported, phone, whatsapp,
          connections_sent_today, top_leads, ti, success, gens, lpc, responses, polled>>

-----------------------------------------------------------------------------
(* Text helpers                                                            *)

NULL == <<"NULL">>
EMPTY == <<>>

UpperCase == <<"A","B","C","D","E","F","G","H","I","J","K","L","M","N","O","P","Q","R","S","T","U","V","W","X","Y","Z">>
LowerCase == <<"a","b","c","d","e","f","g","h","i","j","k","l","m","n","o","p","q","r","s","t","u","v","w","x","y","z">>

LowerChar(c) ==
    IF \E i \in 1..Len(UpperCase) : UpperCase[i] = c
    THEN LowerCase[CHOOSE i \in 1..Len(UpperCase) : UpperCase[i] = c]
    ELSE c

\* str.lower()
Lower(s) == [i \in 1..Len(s) |-> LowerChar(s[i])]

\* sub in s
Contains(s, sub) ==
    \E i \in 0..(Len(s) - Len(sub)) : SubSeq(s, i + 1, i + Len(sub)) = sub

\* any(k in s for k in keys)
ContainsAny(s, keys) == \E k \in keys : Contains(s, k)

\* Python truthiness of a str-or-None value
Truthy(x) == x # NULL /\ x # EMPTY

Min(a, b) == IF a <= b THEN a ELSE b

DigitChars == <<"0","1","2","3","4","5","6","7","8","9">>
IsDigit(c) == \E i \in 1..10 : DigitChars[i] = c
DigitVal(c) == (CHOOSE i \in 1..10 : DigitChars[i] = c) - 1

\* int(''.join(filter(str.isdigit, s)) or 0)
RECURSIVE DigitsToInt(_, _)
DigitsToInt(s, acc) ==
    IF s = EMPTY THEN acc
    ELSE IF IsDigit(Head(s)) THEN DigitsToInt(Tail(s), acc * 10 + DigitVal(Head(s)))
    ELSE DigitsToInt(Tail(s), acc)

-----------------------------------------------------------------------------
(* Scoring: realtime_linkedin_scraper.py LeadScorer                        *)

LS_TitleScore(title) ==
    IF ContainsAny(title, {<<"c","t","o">>, <<"c","i","o">>, <<"c","h","i","e","f">>}) THEN 40
    ELSE IF ContainsAny(title, {<<"d","i","r","e","c","t","o","r">>, <<"v","p">>, <<"h","e","a","d">>}) THEN 30
    ELSE IF Contains(title, <<"m","a","n","a","g","e","r">>) THEN 20
    ELSE IF Contains(title, <<"s","e","n","i","o","r">>) THEN 15
    ELSE 0

LS_large_companies ==
    {<<"e","m","i","r","a","t","e","s">>, <<"e","t","i","s","a","l","a","t">>, <<"d","u">>, <<"a","d","n","o","c">>, <<"d","e","w","a">>, <<"s","e","w","a">>, <<"a","i","r","p","o","r","t">>, <<"b","a","n","k">>, <<"u","n","i","v","e","r","s","i","t","y">>, <<"h","o","s","p","i","t","a","l">>}

LS_CompanyScore(company) ==
    IF ContainsAny(Lower(company), LS_large_companies) THEN 20
    ELSE IF Truthy(company) THEN 10
    ELSE 0

LS_LocationScore(location) ==
    IF ContainsAny(location, {<<"s","h","a","r","j","a","h">>, <<"r","a","s"," ","a","l"," ","k","h","a","i","m","a","h">>, <<"r","a","k">>}) THEN 15
    ELSE IF ContainsAny(location, {<<"d","u","b","a","i">>, <<"u","a","e">>}) THEN 10
    ELSE 0

LS_ContactScore(l) ==
    (IF Truthy(l.email) THEN 10 ELSE 0)
    + (IF Truthy(l.phone) THEN 8 ELSE 0)
    + (IF Truthy(l.linkedin_url) THEN 7 ELSE 0)

LS_RawScore(l) ==
    LS_TitleScore(Lower(l.title)) + LS_CompanyScore(l.company)
    + LS_LocationScore(Lower(l.location)) + LS_ContactScore(l)

\* Mutant: the title bands accumulate (if instead of elif) and the final
\* min(score, 100) is missing.
M_calculate_score_unclamped(l) ==
    LS_RawScore(l)
    + (IF ContainsAny(Lower(l.title), {<<"c","t","o">>, <<"c","i","o">>, <<"c","h","i","e","f">>})
          /\ ContainsAny(Lower(l.title), {<<"d","i","r","e","c","t","o","r">>, <<"v","p">>, <<"h","e","a","d">>})
       THEN 30 ELSE 0)

\* LeadScorer.calculate_score; l.email is the lead's email_1
LeadScorer_calculate_score(l) == Min(LS_RawScore(l), 100)

\* LeadScorer.get_priority
get_priority(score) ==
    IF score >= 90 THEN "Hot"
    ELSE IF score >= 80 THEN "High"
    ELSE IF score >= 70 THEN "Medium"
    ELSE "Low"

-----------------------------------------------------------------------------
(* Scoring: apollo_linkedin_scraper.py ApolloLeadScraper                   *)

AP_TitleScore(title) ==
    IF ContainsAny(title, {<<"c","t","o">>, <<"c","h","i","e","f"," ","t","e","c","h","n","o","l","o","g","y">>, <<"c","h","i","e","f"," ","i","n","f","o","r","m","a","t","i","o","n">>}) THEN 35
    ELSE IF ContainsAny(title, {<<"d","i","r","e","c","t","o","r">>, <<"v","p">>, <<"v","i","c","e"," ","p","r","e","s","i","d","e","n","t">>}) THEN 30
    ELSE IF Contains(title, <<"m","a","n","a","g","e","r">>) THEN 20
    ELSE IF Contains(title, <<"h","e","a","d">>) \/ Contains(title, <<"l","e","a","d">>) THEN 15
    ELSE 0

AP_ContactScore(p) ==
    (IF p.email_status = "verified" THEN 20
     ELSE IF p.email_status = "guessed" THEN 10 ELSE 0)
    + (IF Truthy(p.phone) THEN 10 ELSE 0)

AP_SizeScore(emp_count) ==
    IF emp_count >= 1000 THEN 20
    ELSE IF emp_count >= 200 THEN 15
    ELSE IF emp_count >= 50 THEN 10
    ELSE IF emp_count >= 10 THEN 5
    ELSE 0

AP_LocationScore(city) ==
    IF ContainsAny(city, {<<"d","u","b","a","i">>, <<"s","h","a","r","j","a","h">>, <<"r","a","k">>, <<"a","b","u"," ","d","h","a","b","i">>}) THEN 15 ELSE 0

ScoreError == -1

\* ApolloLeadScraper.calculate_lead_score; p.phone stands for phone_numbers,
\* p.emp for organization.estimated_num_employees, p.location for city.
\* p.org_null is a person whose "organization" is null: org.get raises.
ApolloLeadScraper_calculate_lead_score(p) ==
    IF p.org_null THEN ScoreError
    ELSE Min(AP_TitleScore(Lower(p.title)) + AP_ContactScore(p)
             + AP_SizeScore(p.emp) + AP_LocationScore(Lower(p.location)), 100)

-----------------------------------------------------------------------------
(* Scoring: apify_sales_lead/apify_linkedin_scraper.py                     *)

AF_TitleScore(title) ==
    IF ContainsAny(title, {<<"c","t","o">>, <<"c","h","i","e","f"," ","t","e","c","h","n","o","l","o","g","y">>, <<"c","h","i","e","f"," ","i","n","f","o","r","m","a","t","i","o","n">>}) THEN 40
    ELSE IF ContainsAny(title, {<<"d","i","r","e","c","t","o","r">>, <<"v","p">>, <<"v","i","c","e"," ","p","r","e","s","i","d","e","n","t">>}) THEN 30
    ELSE IF Contains(title, <<"m","a","n","a","g","e","r">>) THEN 20
    ELSE IF ContainsAny(title, {<<"h","e","a","d">>, <<"l","e","a","d">>}) THEN 15
    ELSE 0

AF_LocationScore(location) ==
    IF ContainsAny(location, {<<"d","u","b","a","i">>, <<"s","h","a","r","j","a","h">>, <<"r","a","k">>, <<"r","a","s"," ","a","l"," ","k","h","a","i","m","a","m">>, <<"u","a","e">>, <<"e","m","i","r","a","t","e","s">>}) THEN 20 ELSE 0

AF_ConnectionsScore(connections) ==
    IF ~Truthy(connections) THEN 0
    ELSE IF Contains(connections, <<"5","0","0","+">>) THEN 10
    ELSE IF DigitsToInt(connections, 0) > 200 THEN 5
    ELSE 0

AF_RawScore(p) ==
    AF_TitleScore(Lower(IF Truthy(p.title) THEN p.title
                        ELSE IF Truthy(p.headline) THEN p.headline ELSE EMPTY))
    + AF_LocationScore(Lower(IF Truthy(p.location) THEN p.location ELSE EMPTY))
    + (IF Truthy(p.email) THEN 10 ELSE 0)
    + (IF Truthy(p.phone) THEN 10 ELSE 0)
    + (IF Truthy(p.about) THEN 5 ELSE 0)
    + (IF Truthy(p.company) THEN 5 ELSE 0)
    + AF_ConnectionsScore(p.connections)

\* ApifyLinkedInScraper.calculate_lead_score; p.company is company_name
ApifyLinkedInScraper_calculate_lead_score(p) == Min(AF_RawScore(p), 100)

\* ApifyMultiScraper.process_and_save_leads: 'lead_score': 50
ApifyMultiScraper_lead_score(item) == 50

-----------------------------------------------------------------------------
(* Scoring: ai_hardware_sales_platform.py LeadScoringEngine                *)

\* title_scores, in the dict's insertion order
title_scores ==
    << <<<<"C","T","O">>, 30>>, <<<<"C","I","O">>, 30>>, <<<<"V","P">>, 25>>,
       <<<<"D","i","r","e","c","t","o","r">>, 20>>, <<<<"M","a","n","a","g","e","r">>, 15>>, <<<<"H","e","a","d">>, 20>> >>

\* for keyword, points in title_scores.items(): first match, then break
RECURSIVE EN_TitleScan(_, _)
EN_TitleScan(title, i) ==
    IF i > Len(title_scores) THEN 0
    ELSE IF Contains(title, Lower(title_scores[i][1])) THEN title_scores[i][2]
    ELSE EN_TitleScan(title, i + 1)

EN_TitleScore(job_title) == EN_TitleScan(Lower(job_title), 1)

\* size_scores.get(lead.company_size, 5), skipped when company_size is falsy
EN_SizeScore(company_size) ==
    IF ~Truthy(company_size) THEN 0
    ELSE IF company_size = <<"1","0","0","0","+">> THEN 20
    ELSE IF company_size = <<"5","0","1","-","1","0","0","0">> THEN 18
    ELSE IF company_size = <<"2","0","1","-","5","0","0">> THEN 15
    ELSE IF company_size = <<"5","1","-","2","0","0">> THEN 12
    ELSE IF company_size = <<"1","1","-","5","0">> THEN 8
    ELSE 5

relevant_tech == {"AWS", "Azure", "Dell", "HPE", "Cisco", "VMware"}

EN_TechScore(tech_stack) == Min(Cardinality(tech_stack \cap relevant_tech) * 5, 15)

EN_EngagementScore(l) ==
    (IF l.accepted THEN 5 ELSE 0) + (IF l.responded THEN 5 ELSE 0)

EN_ContactScore(l) ==
    (IF Truthy(l.email) THEN 10 ELSE 0)
    + (IF Truthy(l.phone) THEN 8 ELSE 0)
    + (IF Truthy(l.linkedin_url) THEN 7 ELSE 0)

EN_RawScore(l) ==
    EN_TitleScore(l.title) + EN_SizeScore(l.company_size) + EN_ContactScore(l)
    + EN_TechScore(l.tech_stack) + EN_EngagementScore(l)

\* LeadScoringEngine.calculate_score (a float whose value is always integral)
LeadScoringEngine_calculate_score(l) == Min(EN_RawScore(l), 100)

-----------------------------------------------------------------------------
(* Scoring inputs                                                          *)

Titles ==
    {EMPTY, <<"C","T","O">>, <<"I","T"," ","D","i","r","e","c","t","o","r">>, <<"V","P"," ","I","T">>,
     <<"I","T"," ","M","a","n","a","g","e","r">>, <<"H","e","a","d"," ","o","f"," ","I","T">>,
     <<"S","e","n","i","o","r"," ","E","n","g","i","n","e","e","r">>, <<"T","e","a","m"," ","L","e","a","d">>,
     <<"C","h","i","e","f"," ","I","n","f","o","r","m","a","t","i","o","n"," ","O","f","f","i","c","e","r">>}
Companies == {EMPTY, <<"A","c","m","e">>, <<"R","A","K"," ","B","a","n","k">>}
Locations ==
    {EMPTY, <<"S","h","a","r","j","a","h",","," ","U","A","E">>, <<"D","u","b","a","i">>,
     <<"R","a","s"," ","A","l"," ","K","h","a","i","m","a","h",","," ","U","A","E">>}
\* company-size bucket with a matching employee count
Sizes ==
    { <<EMPTY, 0>>, <<<<"5","1","-","2","0","0">>, 100>>,
      <<<<"5","0","0","-","1","0","0","0">>, 700>>, <<<<"1","0","0","0","+">>, 5000>> }
Emails == {EMPTY, <<"a","@","x",".","a","e">>}
Phones == {EMPTY, <<"+","9","7","1","5","0">>}
ProfileUrls == {EMPTY, <<"i","n","/","a">>}
TechStacks == { {}, {"AWS"}, {"AWS", "Dell", "Cisco", "VMware", "SAP"} }
ConnectionCounts == {EMPTY, <<"5","0","0","+">>, <<"2","5","0">>, <<"1","5","0">>}
Abouts == {EMPTY, <<"b","i","o">>}

\* leads that vary what LeadScorer.calculate_score reads
ScorerLeads ==
    [title : Titles, headline : {EMPTY}, company : Companies, company_size : {EMPTY},
     emp : {0}, org_null : {FALSE}, location : Locations, email : Emails,
     phone : Phones, linkedin_url : ProfileUrls, email_status : {"none"},
     tech_stack : {{}}, accepted : {FALSE}, responded : {FALSE},
     about : {EMPTY}, connections : {EMPTY}]

\* persons that vary what ApolloLeadScraper.calculate_lead_score reads
ApolloPersons ==
    { [title |-> t, headline |-> EMPTY, company |-> EMPTY, company_size |-> sz[1],
       emp |-> sz[2], org_null |-> n, location |-> l, email |-> EMPTY, phone |-> p,
       linkedin_url |-> EMPTY, email_status |-> es, tech_stack |-> {},
       accepted |-> FALSE, responded |-> FALSE, about |-> EMPTY, connections |-> EMPTY] :
      t \in Titles, sz \in Sizes, n \in BOOLEAN, l \in Locations, p \in Phones,
      es \in {"none", "guessed", "verified"} }

\* profiles that vary what ApifyLinkedInScraper.calculate_lead_score reads;
\* the headline is read only when the title is empty
ApifyProfiles ==
    { [title |-> th[1], headline |-> th[2], company |-> c, company_size |-> EMPTY,
       emp |-> 0, org_null |-> FALSE, location |-> l, email |-> e, phone |-> p,
       linkedin_url |-> <<"i","n","/","a">>, email_status |-> "none", tech_stack |-> {},
       accepted |-> FALSE, responded |-> FALSE, about |-> a, connections |-> k] :
      th \in {<<t, EMPTY>> : t \in Titles} \cup {<<EMPTY, <<"C","T","O">>>>},
      c \in {EMPTY, <<"A","c","m","e">>}, l \in Locations, e \in Emails, p \in Phones,
      a \in Abouts, k \in ConnectionCounts }

\* leads that vary what LeadScoringEngine.calculate_score reads
EngineLeads ==
    { [title |-> t, headline |-> EMPTY, company |-> <<"A","c","m","e">>, company_size |-> sz[1],
       emp |-> sz[2], org_null |-> FALSE, location |-> EMPTY, email |-> e, phone |-> p,
       linkedin_url |-> u, email_status |-> "none", tech_stack |-> ts,
       accepted |-> a, responded |-> r, about |-> EMPTY, connections |-> EMPTY] :
      t \in Titles, sz \in Sizes, e \in Emails, p \in Phones, u \in ProfileUrls,
      ts \in TechStacks, a \in BOOLEAN, r \in BOOLEAN }

ScoringInputs == ScorerLeads \cup ApolloPersons \cup ApifyProfiles \cup EngineLeads

-----------------------------------------------------------------------------
(* Scoring calls                                                           *)

MaxCalls == 2
NoCall == [fn |-> "none", score |-> 0, tier |-> "none"]

NoCand == [raw |-> EMPTY, key |-> EMPTY, name |-> EMPTY, failed |-> FALSE]

ScoreIdle == lead = NoCall /\ result = NoCall /\ ncalls = 0
StoreIdle == program = "none" /\ leads = <<>> /\ cand = NoCand /\ out = "none"

NotHanded == [done |-> FALSE, rows |-> <<>>, ok |-> FALSE]
\* no adapter call yet; failed: the external call of the adapter failed (an
\* exception or an error status), value: the list the adapter returned
NoAnswer == [called |-> FALSE, failed |-> FALSE, value |-> <<>>]
Returned(failed, value) == [called |-> TRUE, failed |-> failed, value |-> value]

RunIdle ==
    /\ source = <<>> /\ runNo = 0 /\ pc = "off" /\ bi = 0 /\ pos = 0
    /\ delta = <<>> /\ leads_collected = 0 /\ attempts = 0
    /\ sheet = <<>> /\ handed = NotHanded /\ sinkWrites = 0 /\ syncedBefore = {}
    /\ retries = 0 /\ slept = TRUE /\ endless = FALSE /\ ops = <<>>
    /\ answer = NoAnswer

Collectors == {1, 2}
IdleConn == [pc |-> "idle", key |-> EMPTY, out |-> "none", n |-> 0]
ConcIdle ==
    /\ conns = [c \in Collectors |-> IdleConn]
    /\ dblock = 0 /\ pending = <<>> /\ reported = <<>>

PhoneIdle == phone = NULL /\ whatsapp = NoCall
LinkIdle ==
    /\ connections_sent_today = 0 /\ top_leads = <<>> /\ ti = 0
    /\ success = "none" /\ gens = 0 /\ lpc = "off"
PollIdle == responses = <<>> /\ polled = NoCall
SideIdle == PhoneIdle /\ LinkIdle /\ PollIdle

ScoreFrame == UNCHANGED <<storeVars, runVars, concVars, sideVars>>
StoreFrame == UNCHANGED <<scoreVars, runVars, concVars, sideVars>>
RunFrame == UNCHANGED <<scoreVars, concVars, sideVars>>
ConcFrame == UNCHANGED <<scoreVars, runVars, cand, out, sideVars>>
SideFrame == UNCHANGED <<scoreVars, storeVars, runVars, concVars>>

InitScore ==
    /\ lead \in ScoringInputs
    /\ result = NoCall
    /\ ncalls = 0
    /\ StoreIdle
    /\ RunIdle
    /\ ConcIdle
    /\ SideIdle

\* DailyLeadCollector.enrich_lead: score, then priority from the score
Call_LeadScorer ==
    /\ ncalls < MaxCalls
    /\ LET s == LeadScorer_calculate_score(lead)
       IN result' = [fn |-> "LeadScorer", score |-> s, tier |-> get_priority(s)]
    /\ ncalls' = ncalls + 1
    /\ UNCHANGED lead
    /\ ScoreFrame

\* ApolloLeadScraper.extract_lead_data: lead['lead_score'] (no tier is stored)
Call_Apollo ==
    /\ ncalls < MaxCalls
    /\ result' = [fn |-> "Apollo",
                  score |-> ApolloLeadScraper_calculate_lead_score(lead), tier |-> "none"]
    /\ ncalls' = ncalls + 1
    /\ UNCHANGED lead
    /\ ScoreFrame

\* ApifyLinkedInScraper.process_profile: lead['lead_score'] (no tier is stored)
Call_Apify ==
    /\ ncalls < MaxCalls
    /\ result' = [fn |-> "Apify",
                  score |-> ApifyLinkedInScraper_calculate_lead_score(lead), tier |-> "none"]
    /\ ncalls' = ncalls + 1
    /\ UNCHANGED lead
    /\ ScoreFrame

\* ApifyMultiScraper.process_and_save_leads: the default score
Call_Multi ==
    /\ ncalls < MaxCalls
    /\ result' = [fn |-> "Multi", score |-> ApifyMultiScraper_lead_score(lead), tier |-> "none"]
    /\ ncalls' = ncalls + 1
    /\ UNCHANGED lead
    /\ ScoreFrame

\* LeadScoringEngine.calculate_score (no tier is stored)
Call_Engine ==
    /\ ncalls < MaxCalls
    /\ result' = [fn |-> "Engine",
                  score |-> LeadScoringEngine_calculate_score(lead), tier |-> "none"]
    /\ ncalls' = ncalls + 1
    /\ UNCHANGED lead
    /\ ScoreFrame

NextScore == Call_LeadScorer \/ Call_Apollo \/ Call_Apify \/ Call_Multi \/ Call_Engine

SpecScore == InitScore /\ [][NextScore]_vars

-----------------------------------------------------------------------------
(* Score determinism and range                                             *)

ScoreInRange ==
    result.fn \in {"LeadScorer", "Apify", "Engine"} => result.score \in 0..100

SameCallSameResult ==
    (result.fn # "none" /\ result'.fn = result.fn /\ lead' = lead)
        => (result'.score = result.score /\ result'.tier = result.tier)

OnlyCommonAttributes(l) ==
    /\ l.headline = EMPTY /\ l.about = EMPTY /\ l.connections = EMPTY
    /\ l.tech_stack = {} /\ ~l.accepted /\ ~l.responded /\ ~l.org_null
    /\ l.email_status = "none"

\* C10: for the same lead attributes every scoring path yields the same
\* score: two successive scoring calls on one unchanged lead, by whichever
\* paths, agree.
C10_OneWeightTable ==
    [][(result.fn # "none" /\ result'.fn # "none" /\ lead' = lead
        /\ OnlyCommonAttributes(lead))
          => result'.score = result.score]_vars

-----------------------------------------------------------------------------
(* URL text: realtime_linkedin_scraper.py search_linkedin_profiles         *)

\* index of the first occurrence of sep in s, 0 when there is none
RECURSIVE FindFrom(_, _, _)
FindFrom(s, sep, i) ==
    IF i + Len(sep) - 1 > Len(s) THEN 0
    ELSE IF SubSeq(s, i, i + Len(sep) - 1) = sep THEN i
    ELSE FindFrom(s, sep, i + 1)

Find(s, sep) == FindFrom(s, sep, 1)

\* s.split(sep)[0]
SplitHead(s, sep) == IF Find(s, sep) = 0 THEN s ELSE SubSeq(s, 1, Find(s, sep) - 1)

\* s.split(sep)[1], for an s that contains sep
SplitSecond(s, sep) ==
    SplitHead(SubSeq(s, Find(s, sep) + Len(sep), Len(s)), sep)

InMarker == <<"l","i","n","k","e","d","i","n",".","c","o","m","/","i","n","/">>
RedirectMarker == <<"u","r","l","?","q","=">>

\* the LinkedIn URL extracted from one href of the result page
ExtractUrl(href) ==
    IF Contains(href, RedirectMarker)
    THEN SplitHead(SplitSecond(href, RedirectMarker), <<"&">>)
    ELSE href

\* linkedin_url.split('?')[0].split('#')[0]
CleanUrl(u) == SplitHead(SplitHead(u, <<"?">>), <<"#">>)

InSeq(x, s) == \E i \in 1..Len(s) : s[i] = x

\* the loop over soup.find_all('a', href=True); the membership test is made
\* on the uncleaned URL against the list of cleaned ones
RECURSIVE CollectUrls(_, _)
CollectUrls(hrefs, linkedin_urls) ==
    IF hrefs = <<>> THEN linkedin_urls
    ELSE LET href == Head(hrefs)
             linkedin_url == ExtractUrl(href)
         IN IF Contains(href, InMarker) /\ Contains(linkedin_url, InMarker)
                /\ ~InSeq(linkedin_url, linkedin_urls)
            THEN CollectUrls(Tail(hrefs), Append(linkedin_urls, CleanUrl(linkedin_url)))
            ELSE CollectUrls(Tail(hrefs), linkedin_urls)

\* LinkedInProfileFinder.search_linkedin_profiles on a fetched result page:
\* linkedin_urls[:limit]
search_linkedin_profiles(hrefs, limit) ==
    LET urls == CollectUrls(hrefs, <<>>)
    IN SubSeq(urls, 1, Min(limit, Len(urls)))

-----------------------------------------------------------------------------
(* The SQLite lead tables                                                  *)

\* SQL "=" on a TEXT column: NULL equals nothing, text compares byte for byte
SqlEq(a, b) == a # NULL /\ b # NULL /\ a = b

\* Mutant: the existence check finds nothing.
M_is_duplicate_never(tbl, key) == FALSE

\* SELECT ... FROM leads WHERE <key column> = ? finds a row
is_duplicate(tbl, key) == \E i \in 1..Len(tbl) : SqlEq(tbl[i].key, key)

\* Mutant: the key column is declared without UNIQUE
M_NoUniqueConstraint(tbl, key) == FALSE

\* the UNIQUE constraint of the key column (linkedin_url TEXT UNIQUE,
\* apollo_id TEXT UNIQUE): NULLs never collide
ViolatesUnique(tbl, key) == \E i \in 1..Len(tbl) : SqlEq(tbl[i].key, key)

\* Mutant: INSERT OR REPLACE, which deletes the row holding the key
M_SqlInsertOrReplace(tbl, row, notnull) ==
    IF notnull /\ row.name = NULL
    THEN [tbl |-> tbl, ok |-> FALSE]
    ELSE [tbl |-> Append(SelectSeq(tbl, LAMBDA r : ~SqlEq(r.key, row.key)), row),
          ok |-> TRUE]

\* INSERT INTO leads ... ; commit.  notnull: the schema says name TEXT NOT NULL
SqlInsert(tbl, row, notnull) ==
    IF ViolatesUnique(tbl, row.key) \/ (notnull /\ row.name = NULL)
    THEN [tbl |-> tbl, ok |-> FALSE]
    ELSE [tbl |-> Append(tbl, row), ok |-> TRUE]

Row(key, name, score, priority) ==
    [key |-> key, name |-> name, lead_score |-> score, priority |-> priority]

-----------------------------------------------------------------------------
(* realtime_linkedin_scraper.py: LeadDatabase, enrich_lead, the loop body  *)

NoLead == [none |-> TRUE]

\* LinkedInProfileFinder.scrape_linkedin_profile on a fetched page: None when
\* the request failed or the page title gave no name; company and location
\* are always ''
scrape_linkedin_profile(url, page) ==
    IF page.failed \/ ~Truthy(page.name) THEN NoLead
    ELSE [linkedin_url |-> url, name |-> page.name, title |-> page.title,
          company |-> EMPTY, location |-> EMPTY]

\* DailyLeadCollector.enrich_lead.  lead['company'] stays '' (the scrape sets
\* it to ''), so the e-mail patterns and the website lookup are never reached.
enrich_lead(url, page) ==
    LET profile_data == scrape_linkedin_profile(url, page)
        l0 == [linkedin_url |-> url, name |-> EMPTY, title |-> EMPTY, company |-> EMPTY,
               location |-> EMPTY, email |-> EMPTY, phone |-> EMPTY]
        l1 == IF profile_data = NoLead THEN l0
              ELSE [l0 EXCEPT !.name = profile_data.name, !.title = profile_data.title]
        score == LeadScorer_calculate_score(l1)
    IN IF Truthy(l1.name)
       THEN [linkedin_url |-> l1.linkedin_url, name |-> l1.name, title |-> l1.title,
             lead_score |-> score, priority |-> get_priority(score)]
       ELSE NoLead

\* LeadDatabase.insert_lead (realtime): the row id, 0 for None
LeadDatabase_insert_lead(tbl, l) ==
    IF is_duplicate(tbl, l.linkedin_url) THEN [tbl |-> tbl, id |-> 0]
    ELSE LET r == SqlInsert(tbl, Row(l.linkedin_url, l.name, l.lead_score, l.priority), TRUE)
         IN IF r.ok THEN [tbl |-> r.tbl, id |-> Len(r.tbl)] ELSE [tbl |-> tbl, id |-> 0]

\* Mutant: no duplicate check, and the lead counts as new whatever insert_lead returns
M_collect_one_AppendUnchecked(tbl, url, page) ==
    LET lead_data == enrich_lead(url, page)
        enriched == <<"scrape_linkedin_profile", "calculate_score">>
    IN IF lead_data = NoLead
       THEN [tbl |-> tbl, out |-> "rejected", ops |-> enriched]
       ELSE LET r == LeadDatabase_insert_lead(tbl, lead_data)
            IN [tbl |-> r.tbl, out |-> "new",
                ops |-> enriched \o <<"insert_lead", "new_leads.append">>]

\* Mutant: the profile is scraped and scored first, the store is asked afterwards
M_collect_one_EnrichFirst(tbl, url, page) ==
    LET lead_data == enrich_lead(url, page)
        enriched == <<"scrape_linkedin_profile", "calculate_score", "is_duplicate">>
    IN IF is_duplicate(tbl, url)
       THEN [tbl |-> tbl, out |-> "duplicate", ops |-> enriched]
       ELSE IF lead_data = NoLead
       THEN [tbl |-> tbl, out |-> "rejected", ops |-> enriched]
       ELSE LET r == LeadDatabase_insert_lead(tbl, lead_data)
            IN IF r.id # 0
               THEN [tbl |-> r.tbl, out |-> "new",
                     ops |-> enriched \o <<"insert_lead", "new_leads.append">>]
               ELSE [tbl |-> tbl, out |-> "failed", ops |-> enriched \o <<"insert_lead">>]

\* DailyLeadCollector.collect_daily_leads, the body of `for url in linkedin_urls`
\* after the attempts count: duplicate check, enrich, insert
\* ops: the calls made for the candidate, in their order
collect_one(tbl, url, page) ==
    IF is_duplicate(tbl, url)
    THEN [tbl |-> tbl, out |-> "duplicate", ops |-> <<"is_duplicate">>]
    ELSE LET lead_data == enrich_lead(url, page)
             enriched == <<"is_duplicate", "scrape_linkedin_profile", "calculate_score">>
         IN IF lead_data = NoLead
            THEN [tbl |-> tbl, out |-> "rejected", ops |-> enriched]
            ELSE LET r == LeadDatabase_insert_lead(tbl, lead_data)
                 IN IF r.id # 0
                    THEN [tbl |-> r.tbl, out |-> "new",
                          ops |-> enriched \o <<"insert_lead", "new_leads.append">>]
                    ELSE [tbl |-> tbl, out |-> "failed",
                          ops |-> enriched \o <<"insert_lead">>]

-----------------------------------------------------------------------------
(* apollo_linkedin_scraper.py: is_duplicate, extract_lead_data, save_lead  *)

\* ApolloLeadScraper.save_lead: True / False
ApolloLeadScraper_save_lead(tbl, l) ==
    LET r == SqlInsert(tbl, Row(l.apollo_id, l.name, l.lead_score, "none"), FALSE)
    IN [tbl |-> r.tbl, saved |-> r.ok]

\* ApolloLeadScraper.run_daily_collection, the body of `for person in people`
\* after the target check.  calculate_lead_score raising ends the run.
apollo_one(tbl, person) ==
    IF is_duplicate(tbl, person.id) THEN [tbl |-> tbl, out |-> "duplicate"]
    ELSE LET score == ApolloLeadScraper_calculate_lead_score(person)
         IN IF score = ScoreError THEN [tbl |-> tbl, out |-> "error"]
            ELSE LET r == ApolloLeadScraper_save_lead(tbl,
                              [apollo_id |-> person.id, name |-> person.name,
                               lead_score |-> score])
                 IN [tbl |-> r.tbl, out |-> IF r.saved THEN "new" ELSE "failed"]

-----------------------------------------------------------------------------
(* apify_sales_lead: process_profile, save_lead, process_and_save_leads    *)

MISSING == <<"MISSING">>

\* item.get('url') or item.get('profileUrl', '')
ItemUrl(item) ==
    IF Truthy(item.url) THEN item.url
    ELSE IF item.profileUrl = MISSING THEN EMPTY
    ELSE item.profileUrl

\* ApifyLinkedInScraper.process_profile: None for no URL and for a duplicate
process_profile(tbl, item) ==
    LET linkedin_url == ItemUrl(item)
    IN IF ~Truthy(linkedin_url) THEN [none |-> TRUE, why |-> "rejected"]
       ELSE IF is_duplicate(tbl, linkedin_url) THEN [none |-> TRUE, why |-> "duplicate"]
       ELSE [none |-> FALSE, linkedin_url |-> linkedin_url, name |-> item.name,
             lead_score |-> ApifyLinkedInScraper_calculate_lead_score(item)]

\* ApifyLinkedInScraper.save_lead: True / False
ApifyLinkedInScraper_save_lead(tbl, l) ==
    LET r == SqlInsert(tbl, Row(l.linkedin_url, l.name, l.lead_score, "none"), FALSE)
    IN [tbl |-> r.tbl, saved |-> r.ok]

\* ApifyLinkedInScraper.run_daily_collection, the body of the profile loop
\* after the target check
apify_one(tbl, item) ==
    LET l == process_profile(tbl, item)
    IN IF l.none
       THEN [tbl |-> tbl, out |-> l.why,
             ops |-> IF l.why = "duplicate" THEN <<"is_duplicate">> ELSE <<>>]
       ELSE LET r == ApifyLinkedInScraper_save_lead(tbl, l)
            IN [tbl |-> r.tbl, out |-> IF r.saved THEN "new" ELSE "failed",
                ops |-> <<"is_duplicate", "calculate_lead_score", "save_lead">>]

\* ApifyMultiScraper._save_lead: True / False
ApifyMultiScraper_save_lead(tbl, l) ==
    LET r == SqlInsert(tbl, Row(l.linkedin_url, l.name, l.lead_score, "none"), FALSE)
    IN [tbl |-> r.tbl, saved |-> r.ok]

\* ApifyMultiScraper.process_and_save_leads, the body of `for item in results`
multi_one(tbl, item) ==
    LET r == ApifyMultiScraper_save_lead(tbl,
                 [linkedin_url |-> ItemUrl(item),
                  name |-> IF Truthy(item.name) THEN item.name ELSE EMPTY,
                  lead_score |-> ApifyMultiScraper_lead_score(item)])
    IN [tbl |-> r.tbl, out |-> IF r.saved THEN "new" ELSE "failed"]

-----------------------------------------------------------------------------
(* complete_scraper_gsheets.py: SAMPLE_LEADS, LeadDatabase.insert_lead     *)

\* SAMPLE_LEADS: the fields of each sample lead that the stores, the tiers and
\* the size bands read
SAMPLE_LEADS ==
    <<
      [linkedin_url |-> <<"h","t","t","p","s",":","/","/","l","i","n","k","e","d","i","n",".","c","o","m","/","i","n","/","a","h","m","e","d","-","h","a","s","s","a","n","-","a","l","q","a","s","i","m","i">>,
       name |-> <<"A","h","m","e","d"," ","H","a","s","s","a","n"," ","A","l"," ","Q","a","s","i","m","i">>,
       title |-> <<"I","T"," ","D","i","r","e","c","t","o","r">>,
       company_size |-> <<"1","0","0","0","+">>, lead_score |-> 92, priority |-> "High"],
      [linkedin_url |-> <<"h","t","t","p","s",":","/","/","l","i","n","k","e","d","i","n",".","c","o","m","/","i","n","/","f","a","t","i","m","a","-","m","o","h","a","m","m","e","d","-","r","a","k">>,
       name |-> <<"F","a","t","i","m","a"," ","M","o","h","a","m","m","e","d">>,
       title |-> <<"C","h","i","e","f"," ","T","e","c","h","n","o","l","o","g","y"," ","O","f","f","i","c","e","r">>,
       company_size |-> <<"5","0","0","-","1","0","0","0">>, lead_score |-> 95, priority |-> "Hot"],
      [linkedin_url |-> <<"h","t","t","p","s",":","/","/","l","i","n","k","e","d","i","n",".","c","o","m","/","i","n","/","r","a","j","e","s","h","-","k","u","m","a","r","-","a","u","r","a","k">>,
       name |-> <<"R","a","j","e","s","h"," ","K","u","m","a","r">>,
       title |-> <<"I","T"," ","I","n","f","r","a","s","t","r","u","c","t","u","r","e"," ","M","a","n","a","g","e","r">>,
       company_size |-> <<"2","0","0","-","5","0","0">>, lead_score |-> 78, priority |-> "Medium"],
      [linkedin_url |-> <<"h","t","t","p","s",":","/","/","l","i","n","k","e","d","i","n",".","c","o","m","/","i","n","/","s","a","r","a","h","-","a","l","n","a","h","y","a","n">>,
       name |-> <<"S","a","r","a","h"," ","A","l"," ","N","a","h","y","a","n">>,
       title |-> <<"V","P"," ","o","f"," ","T","e","c","h","n","o","l","o","g","y">>,
       company_size |-> <<"5","0","0","-","1","0","0","0">>, lead_score |-> 88, priority |-> "High"],
      [linkedin_url |-> <<"h","t","t","p","s",":","/","/","l","i","n","k","e","d","i","n",".","c","o","m","/","i","n","/","m","o","h","a","m","m","e","d","-","b","i","n","r","a","s","h","i","d">>,
       name |-> <<"M","o","h","a","m","m","e","d"," ","A","l","i"," ","B","i","n"," ","R","a","s","h","i","d">>,
       title |-> <<"D","i","r","e","c","t","o","r"," ","o","f"," ","I","T">>,
       company_size |-> <<"1","0","0","0","+">>, lead_score |-> 94, priority |-> "Hot"],
      [linkedin_url |-> <<"h","t","t","p","s",":","/","/","l","i","n","k","e","d","i","n",".","c","o","m","/","i","n","/","p","r","i","y","a","-","s","h","a","r","m","a","-","s","e","w","a">>,
       name |-> <<"P","r","i","y","a"," ","S","h","a","r","m","a">>,
       title |-> <<"I","T"," ","M","a","n","a","g","e","r">>,
       company_size |-> <<"5","0","0","-","1","0","0","0">>, lead_score |-> 85, priority |-> "High"],
      [linkedin_url |-> <<"h","t","t","p","s",":","/","/","l","i","n","k","e","d","i","n",".","c","o","m","/","i","n","/","k","h","a","l","i","d","-","a","b","d","u","l","l","a","h","-","s","i","b">>,
       name |-> <<"K","h","a","l","i","d"," ","A","b","d","u","l","l","a","h">>,
       title |-> <<"H","e","a","d"," ","o","f"," ","T","e","c","h","n","o","l","o","g","y">>,
       company_size |-> <<"2","0","0","-","5","0","0">>, lead_score |-> 91, priority |-> "Hot"],
      [linkedin_url |-> <<"h","t","t","p","s",":","/","/","l","i","n","k","e","d","i","n",".","c","o","m","/","i","n","/","j","e","n","n","i","f","e","r","-","w","i","l","l","i","a","m","s","-","u","o","s">>,
       name |-> <<"J","e","n","n","i","f","e","r"," ","W","i","l","l","i","a","m","s">>,
       title |-> <<"I","T"," ","P","r","o","c","u","r","e","m","e","n","t"," ","M","a","n","a","g","e","r">>,
       company_size |-> <<"1","0","0","0","+">>, lead_score |-> 82, priority |-> "Medium"],
      [linkedin_url |-> <<"h","t","t","p","s",":","/","/","l","i","n","k","e","d","i","n",".","c","o","m","/","i","n","/","o","m","a","r","-","h","a","s","s","a","n","-","a","i","r","a","r","a","b","i","a">>,
       name |-> <<"O","m","a","r"," ","H","a","s","s","a","n">>,
       title |-> <<"C","T","O">>,
       company_size |-> <<"1","0","0","0","+">>, lead_score |-> 93, priority |-> "Hot"],
      [linkedin_url |-> <<"h","t","t","p","s",":","/","/","l","i","n","k","e","d","i","n",".","c","o","m","/","i","n","/","n","a","d","i","a","-","k","h","a","l","f","a","n","-","s","h","a","m","s">>,
       name |-> <<"N","a","d","i","a"," ","K","h","a","l","f","a","n">>,
       title |-> <<"I","n","f","r","a","s","t","r","u","c","t","u","r","e"," ","D","i","r","e","c","t","o","r">>,
       company_size |-> <<"2","0","0","-","5","0","0">>, lead_score |-> 80, priority |-> "Medium"],
      [linkedin_url |-> <<"h","t","t","p","s",":","/","/","l","i","n","k","e","d","i","n",".","c","o","m","/","i","n","/","d","a","v","i","d","-","c","h","e","n","-","j","u","l","p","h","a","r">>,
       name |-> <<"D","a","v","i","d"," ","C","h","e","n">>,
       title |-> <<"I","T"," ","S","y","s","t","e","m","s"," ","M","a","n","a","g","e","r">>,
       company_size |-> <<"5","0","0","-","1","0","0","0">>, lead_score |-> 86, priority |-> "High"],
      [linkedin_url |-> <<"h","t","t","p","s",":","/","/","l","i","n","k","e","d","i","n",".","c","o","m","/","i","n","/","l","a","i","l","a","-","m","o","h","a","m","m","e","d","-","r","a","k","f","t","z">>,
       name |-> <<"L","a","i","l","a"," ","M","o","h","a","m","m","e","d">>,
       title |-> <<"T","e","c","h","n","o","l","o","g","y"," ","M","a","n","a","g","e","r">>,
       company_size |-> <<"2","0","0","-","5","0","0">>, lead_score |-> 75, priority |-> "Medium"],
      [linkedin_url |-> <<"h","t","t","p","s",":","/","/","l","i","n","k","e","d","i","n",".","c","o","m","/","i","n","/","m","i","c","h","a","e","l","-","r","o","b","e","r","t","s","-","r","a","k","t","d","a">>,
       name |-> <<"M","i","c","h","a","e","l"," ","R","o","b","e","r","t","s">>,
       title |-> <<"C","h","i","e","f"," ","I","n","f","o","r","m","a","t","i","o","n"," ","O","f","f","i","c","e","r">>,
       company_size |-> <<"1","0","0","-","2","0","0">>, lead_score |-> 77, priority |-> "Medium"],
      [linkedin_url |-> <<"h","t","t","p","s",":","/","/","l","i","n","k","e","d","i","n",".","c","o","m","/","i","n","/","z","a","i","n","a","b","-","a","l","i","-","s","c","t","d","a">>,
       name |-> <<"Z","a","i","n","a","b"," ","A","l","i">>,
       title |-> <<"I","T"," ","D","i","r","e","c","t","o","r">>,
       company_size |-> <<"1","0","0","-","2","0","0">>, lead_score |-> 79, priority |-> "Medium"],
      [linkedin_url |-> <<"h","t","t","p","s",":","/","/","l","i","n","k","e","d","i","n",".","c","o","m","/","i","n","/","s","a","n","j","a","y","-","p","a","t","e","l","-","n","c","c">>,
       name |-> <<"S","a","n","j","a","y"," ","P","a","t","e","l">>,
       title |-> <<"S","e","n","i","o","r"," ","I","T"," ","M","a","n","a","g","e","r">>,
       company_size |-> <<"5","0","0","-","1","0","0","0">>, lead_score |-> 81, priority |-> "Medium"]
    >>

\* LeadDatabase.insert_lead (complete_scraper_gsheets): the row id, 0 for None
Complete_insert_lead(tbl, l) ==
    LET r == SqlInsert(tbl, Row(l.linkedin_url, l.name, l.lead_score, l.priority), TRUE)
    IN IF r.ok THEN [tbl |-> r.tbl, id |-> Len(r.tbl)] ELSE [tbl |-> tbl, id |-> 0]

\* main(), the body of `for lead in SAMPLE_LEADS`
complete_one(tbl, i) ==
    LET r == Complete_insert_lead(tbl, SAMPLE_LEADS[i])
    IN [tbl |-> r.tbl, out |-> IF r.id # 0 THEN "new" ELSE "failed"]

-----------------------------------------------------------------------------
(* Candidates submitted to the stores                                      *)

MaxRows == 2

U_a == <<"l","i","n","k","e","d","i","n",".","c","o","m","/","i","n","/","a">>
U_A == <<"l","i","n","k","e","d","i","n",".","c","o","m","/","i","n","/","A">>
U_a_trk == <<"l","i","n","k","e","d","i","n",".","c","o","m","/","i","n","/","a","?","t","r","k","=","x">>
U_a_sp == <<"l","i","n","k","e","d","i","n",".","c","o","m","/","i","n","/","a"," ">>
U_b == <<"l","i","n","k","e","d","i","n",".","c","o","m","/","i","n","/","b">>
H_redirect_a == <<"/","u","r","l","?","q","=","l","i","n","k","e","d","i","n",".","c","o","m","/","i","n","/","a","&","s","a","=","U">>
H_other == <<"e","x","a","m","p","l","e",".","c","o","m","/","x">>
N_AlB == <<"A","l"," ","B">>
N_AhmedHassan == <<"A","h","m","e","d"," ","H","a","s","s","a","n">>

\* hrefs of a Google result page
RawHrefs == {U_a, U_A, U_a_trk, U_a_sp, U_b, H_redirect_a, H_other}

\* search_linkedin_profiles on a result page holding one href
SearchResult == [href \in RawHrefs |-> search_linkedin_profiles(<<href>>, 5)]

\* what fetching a profile page gives
Pages ==
    { [failed |-> TRUE, name |-> EMPTY, title |-> EMPTY],
      [failed |-> FALSE, name |-> EMPTY, title |-> EMPTY],
      [failed |-> FALSE, name |-> N_AlB, title |-> <<"C","T","O">>],
      [failed |-> FALSE, name |-> N_AhmedHassan, title |-> <<"I","T"," ","D","i","r","e","c","t","o","r">>] }

\* a person of an Apollo search response
APerson(i, n) ==
    [title |-> <<"C","T","O">>, headline |-> EMPTY, company |-> EMPTY,
     company_size |-> EMPTY, emp |-> 0, org_null |-> n, location |-> EMPTY,
     email |-> EMPTY, phone |-> EMPTY, linkedin_url |-> EMPTY, email_status |-> "none",
     tech_stack |-> {}, accepted |-> FALSE, responded |-> FALSE, about |-> EMPTY,
     connections |-> EMPTY, id |-> i, name |-> N_AlB]

ApolloPeople == {APerson(i, n) : i \in {NULL, <<"p","1">>, <<"p","2">>}, n \in BOOLEAN}

\* url and profileUrl of a dataset item; profileUrl is read only when url is falsy
ItemUrlPairs ==
    {<<u, MISSING>> : u \in {U_a, U_A, U_a_trk, U_a_sp, U_b}}
        \cup {<<u, pu>> : u \in {NULL, EMPTY}, pu \in {MISSING, NULL, U_b}}

\* an item of an Apify dataset
AItem(u, pu) ==
    [title |-> <<"C","T","O">>, headline |-> EMPTY, company |-> EMPTY,
     company_size |-> EMPTY, emp |-> 0, org_null |-> FALSE, location |-> EMPTY,
     email |-> EMPTY, phone |-> EMPTY, linkedin_url |-> EMPTY, email_status |-> "none",
     tech_stack |-> {}, accepted |-> FALSE, responded |-> FALSE, about |-> EMPTY,
     connections |-> EMPTY, url |-> u, profileUrl |-> pu, name |-> N_AlB]

ApifyItems == {AItem(up[1], up[2]) : up \in ItemUrlPairs}

-----------------------------------------------------------------------------
(* The stores, one candidate at a time                                     *)

InitStore ==
    /\ program \in {"realtime", "apollo", "apify", "multi", "complete"}
    /\ leads = <<>>
    /\ cand = NoCand
    /\ out = "none"
    /\ ScoreIdle
    /\ RunIdle
    /\ ConcIdle
    /\ SideIdle

\* collect_daily_leads: one URL of a search result through the loop body
StoreCollectOne ==
    /\ program = "realtime"
    /\ \E href \in RawHrefs, page \in Pages :
         LET urls == SearchResult[href]
         IN /\ urls # <<>>
            /\ LET r == collect_one(leads, urls[1], page)
               IN /\ Len(r.tbl) <= MaxRows
                  /\ leads' = r.tbl
                  /\ out' = r.out
                  /\ cand' = [raw |-> href, key |-> urls[1], name |-> page.name,
                              failed |-> page.failed]
    /\ UNCHANGED program
    /\ StoreFrame

\* LeadDatabase.insert_lead called with an enriched lead
StoreInsertLead ==
    /\ program = "realtime"
    /\ \E href \in RawHrefs, page \in Pages :
         LET urls == SearchResult[href]
         IN /\ urls # <<>>
            /\ enrich_lead(urls[1], page) # NoLead
            /\ LET r == LeadDatabase_insert_lead(leads, enrich_lead(urls[1], page))
               IN /\ Len(r.tbl) <= MaxRows
                  /\ leads' = r.tbl
                  /\ out' = IF r.id # 0 THEN "new" ELSE "failed"
                  /\ cand' = [raw |-> href, key |-> urls[1], name |-> page.name,
                              failed |-> page.failed]
    /\ UNCHANGED program
    /\ StoreFrame

\* run_daily_collection (Apollo): one person through the loop body
StoreApolloOne ==
    /\ program = "apollo"
    /\ \E person \in ApolloPeople :
         LET r == apollo_one(leads, person)
         IN /\ Len(r.tbl) <= MaxRows
            /\ leads' = r.tbl
            /\ out' = r.out
            /\ cand' = [raw |-> person.id, key |-> person.id, name |-> person.name,
                        failed |-> FALSE]
    /\ UNCHANGED program
    /\ StoreFrame

\* ApolloLeadScraper.save_lead called with an extracted lead
StoreApolloSave ==
    /\ program = "apollo"
    /\ \E person \in ApolloPeople :
         /\ ~person.org_null
         /\ LET r == ApolloLeadScraper_save_lead(leads,
                         [apollo_id |-> person.id, name |-> person.name,
                          lead_score |-> ApolloLeadScraper_calculate_lead_score(person)])
            IN /\ Len(r.tbl) <= MaxRows
               /\ leads' = r.tbl
               /\ out' = IF r.saved THEN "new" ELSE "failed"
               /\ cand' = [raw |-> person.id, key |-> person.id, name |-> person.name,
                        failed |-> FALSE]
    /\ UNCHANGED program
    /\ StoreFrame

\* run_daily_collection (Apify): one profile through the loop body
StoreApifyOne ==
    /\ program = "apify"
    /\ \E item \in ApifyItems :
         LET r == apify_one(leads, item)
         IN /\ Len(r.tbl) <= MaxRows
            /\ leads' = r.tbl
            /\ out' = r.out
            /\ cand' = [raw |-> ItemUrl(item), key |-> ItemUrl(item), name |-> item.name,
                        failed |-> FALSE]
    /\ UNCHANGED program
    /\ StoreFrame

\* ApifyLinkedInScraper.save_lead called with a processed lead
StoreApifySave ==
    /\ program = "apify"
    /\ \E item \in ApifyItems :
         /\ Truthy(ItemUrl(item))
         /\ LET r == ApifyLinkedInScraper_save_lead(leads,
                         [linkedin_url |-> ItemUrl(item), name |-> item.name,
                          lead_score |-> ApifyLinkedInScraper_calculate_lead_score(item)])
            IN /\ Len(r.tbl) <= MaxRows
               /\ leads' = r.tbl
               /\ out' = IF r.saved THEN "new" ELSE "failed"
               /\ cand' = [raw |-> ItemUrl(item), key |-> ItemUrl(item), name |-> item.name,
                        failed |-> FALSE]
    /\ UNCHANGED program
    /\ StoreFrame

\* process_and_save_leads: one item through the loop body and _save_lead
StoreMultiOne ==
    /\ program = "multi"
    /\ \E item \in ApifyItems :
         LET r == multi_one(leads, item)
         IN /\ Len(r.tbl) <= MaxRows
            /\ leads' = r.tbl
            /\ out' = r.out
            /\ cand' = [raw |-> ItemUrl(item), key |-> ItemUrl(item), name |-> item.name,
                        failed |-> FALSE]
    /\ UNCHANGED program
    /\ StoreFrame

\* main() of complete_scraper_gsheets: one sample lead through insert_lead
StoreCompleteOne ==
    /\ program = "complete"
    /\ \E i \in 1..Len(SAMPLE_LEADS) :
         LET r == complete_one(leads, i)
         IN /\ Len(r.tbl) <= MaxRows
            /\ leads' = r.tbl
            /\ out' = r.out
            /\ cand' = [raw |-> SAMPLE_LEADS[i].linkedin_url,
                        key |-> SAMPLE_LEADS[i].linkedin_url, name |-> SAMPLE_LEADS[i].name,
                        failed |-> FALSE]
    /\ UNCHANGED program
    /\ StoreFrame

NextStore ==
    \/ StoreCollectOne \/ StoreInsertLead
    \/ StoreApolloOne \/ StoreApolloSave
    \/ StoreApifyOne \/ StoreApifySave
    \/ StoreMultiOne
    \/ StoreCompleteOne

SpecStore == InitStore /\ [][NextStore]_vars

-----------------------------------------------------------------------------
(* Collection runs and the Google Sheets sink                              *)

MaxRuns == 2
Target == 2
\* frames of search_people the interpreter allows (sys.getrecursionlimit())
RecursionLimit == 2
max_attempts == Target * 3

Range(s) == {s[i] : i \in 1..Len(s)}

IsPrefix(s, u) == Len(s) <= Len(u) /\ SubSeq(u, 1, Len(s)) = s

\* the place of a row in ORDER BY lead_score DESC [, collected_date DESC]:
\* after the rows that sort before it
InsertOrdered(sorted, row, newestFirst) ==
    LET k == Cardinality({i \in 1..Len(sorted) :
                 \/ sorted[i].lead_score > row.lead_score
                 \/ (sorted[i].lead_score = row.lead_score /\ ~newestFirst)})
    IN SubSeq(sorted, 1, k) \o <<row>> \o SubSeq(sorted, k + 1, Len(sorted))

RECURSIVE OrderFrom(_, _, _, _)
OrderFrom(tbl, i, acc, newestFirst) ==
    IF i > Len(tbl) THEN acc
    ELSE OrderFrom(tbl, i + 1, InsertOrdered(acc, tbl[i], newestFirst), newestFirst)

\* SELECT ... FROM leads ORDER BY lead_score DESC, collected_date DESC
SelectForSync(tbl) == OrderFrom(tbl, 1, <<>>, TRUE)

\* LeadDatabase.get_all_leads (complete): ORDER BY lead_score DESC
get_all_leads(tbl) == OrderFrom(tbl, 1, <<>>, FALSE)

SheetRows(rows) == [i \in 1..Len(rows) |-> rows[i].key]

\* what fetching the profile page of a URL gives
ProfilePage(url) == [failed |-> FALSE, name |-> N_AlB, title |-> <<"C","T","O">>]

\* hrefs of a Google result page
RunSearches ==
    {<<U_a>>, <<U_a, U_b>>, <<U_b, U_A>>, <<H_other>>,
     <<U_a, U_A, U_a_sp, U_b, U_a_trk>>}

RunSearchResult == [s \in RunSearches |-> search_linkedin_profiles(s, 5)]

\* people of one page of Apollo results
RunPages ==
    { <<APerson(<<"p","1">>, FALSE)>>,
      <<APerson(<<"p","1">>, FALSE), APerson(<<"p","2">>, FALSE)>>,
      <<APerson(NULL, FALSE)>>,
      <<APerson(<<"p","2">>, FALSE), APerson(<<"p","1">>, TRUE)>> }

\* items of the dataset of an actor run
RunDatasets ==
    { <<>>,
      <<AItem(U_a, MISSING)>>,
      <<AItem(U_a, MISSING), AItem(U_b, MISSING)>>,
      <<AItem(U_a, MISSING), AItem(U_A, MISSING)>>,
      <<AItem(U_a, MISSING), AItem(U_a, MISSING)>>,
      <<AItem(EMPTY, MISSING), AItem(U_a, MISSING)>> }

Sources(prog) ==
    IF prog = "realtime"
    THEN {<<s>> : s \in RunSearches} \cup {<<s1, s2>> : s1 \in RunSearches, s2 \in RunSearches}
    ELSE IF prog = "apollo"
    THEN {<<pg>> : pg \in RunPages} \cup {<<p1, p2>> : p1 \in RunPages, p2 \in RunPages}
    ELSE IF prog = "apify"
    THEN {<<d>> : d \in RunDatasets}
    ELSE {<<[i \in 1..Len(SAMPLE_LEADS) |-> i]>>}

InitRun ==
    /\ program \in {"realtime", "apollo", "apify", "complete"}
    /\ source \in Sources(program)
    /\ leads = <<>> /\ cand = NoCand /\ out = "none"
    /\ runNo = 0 /\ pc = "idle" /\ bi = 0 /\ pos = 0
    /\ delta = <<>> /\ leads_collected = 0 /\ attempts = 0
    /\ sheet = <<>> /\ handed = NotHanded /\ sinkWrites = 0 /\ syncedBefore = {}
    /\ retries = 0 /\ slept = TRUE /\ ops = <<>> /\ answer = NoAnswer
    /\ endless \in (IF program = "apollo" THEN BOOLEAN ELSE {FALSE})
    /\ ScoreIdle
    /\ ConcIdle
    /\ SideIdle

\* the script is started: a new process, a new collector object
RunStart ==
    /\ pc = "idle"
    /\ runNo < MaxRuns
    /\ runNo' = runNo + 1
    /\ pc' = "loop"
    /\ bi' = 1 /\ pos' = 1
    /\ delta' = <<>> /\ leads_collected' = 0 /\ attempts' = 0
    /\ handed' = NotHanded /\ sinkWrites' = 0
    /\ syncedBefore' = syncedBefore \cup Range(sheet)
    /\ retries' = 0 /\ slept' = TRUE /\ ops' = <<>> /\ answer' = NoAnswer
    /\ UNCHANGED <<program, leads, cand, out, source, sheet, endless>>
    /\ RunFrame

\* run_daily_collection is called again on the scraper object of the run
\* before: self.leads_collected is set in __init__ only and keeps its value
RunAgain ==
    /\ pc = "idle"
    /\ program \in {"apollo", "apify"}
    /\ runNo >= 1 /\ runNo < MaxRuns
    /\ runNo' = runNo + 1
    /\ pc' = "loop"
    /\ bi' = 1 /\ pos' = 1
    /\ delta' = <<>> /\ attempts' = 0
    /\ handed' = NotHanded /\ sinkWrites' = 0
    /\ syncedBefore' = syncedBefore \cup Range(sheet)
    /\ retries' = 0 /\ slept' = TRUE /\ ops' = <<>> /\ answer' = NoAnswer
    /\ UNCHANGED <<program, leads, cand, out, source, sheet, endless, leads_collected>>
    /\ RunFrame

\* collect_daily_leads: head of `for title, location in searches`
RT_Search ==
    /\ program = "realtime" /\ pc = "loop"
    /\ IF bi > Len(source) \/ Len(delta) >= Target \/ attempts >= max_attempts
       THEN pc' = "sync" /\ pos' = pos /\ slept' = slept /\ answer' = answer
       ELSE /\ pc' = "urls" /\ pos' = 1 /\ slept' = FALSE
            /\ answer' = Returned(FALSE, RunSearchResult[source[bi]])
    /\ UNCHANGED <<program, leads, cand, out, source, runNo, bi, delta, leads_collected,
                   attempts, sheet, handed, sinkWrites, syncedBefore>>
    /\ UNCHANGED <<retries, endless, ops>>
    /\ RunFrame

\* collect_daily_leads: search_linkedin_profiles catches an exception of the
\* request or of the parsing and returns []; `for url in []` does nothing
RT_SearchFailed ==
    /\ program = "realtime" /\ pc = "loop"
    /\ bi <= Len(source) /\ Len(delta) < Target /\ attempts < max_attempts
    /\ bi' = bi + 1
    /\ slept' = FALSE
    /\ answer' = Returned(TRUE, <<>>)
    /\ UNCHANGED <<program, leads, cand, out, source, runNo, pc, pos, delta,
                   leads_collected, attempts, sheet, handed, sinkWrites, syncedBefore,
                   retries, endless, ops>>
    /\ RunFrame

\* what the request for a profile page gives: the page, or an exception
FetchedPages(url) == {ProfilePage(url), [failed |-> TRUE, name |-> EMPTY, title |-> EMPTY]}

\* Mutant: the inner loop does not look at the target
M_InnerLoopEnds_NoTarget(linkedin_urls) == pos > Len(linkedin_urls)

\* `for url in linkedin_urls` is over, or `if len(new_leads) >= target: break`
InnerLoopEnds(linkedin_urls) == pos > Len(linkedin_urls) \/ Len(delta) >= Target

\* collect_daily_leads: `for url in linkedin_urls`, one URL
RT_Url ==
    /\ program = "realtime" /\ pc = "urls"
    /\ LET linkedin_urls == RunSearchResult[source[bi]]
       IN IF InnerLoopEnds(linkedin_urls)
          THEN /\ pc' = "loop" /\ bi' = bi + 1
               /\ UNCHANGED <<leads, cand, out, pos, delta, attempts, slept, ops>>
          ELSE \E page \in FetchedPages(linkedin_urls[pos]) :
               LET url == linkedin_urls[pos]
                   r == collect_one(leads, url, page)
               IN /\ attempts' = attempts + 1
                  /\ leads' = r.tbl
                  /\ out' = r.out
                  /\ cand' = [raw |-> url, key |-> url, name |-> page.name,
                              failed |-> page.failed]
                  /\ delta' = IF r.out = "new" THEN Append(delta, url) ELSE delta
                  /\ pos' = pos + 1
                  /\ slept' = IF r.out = "duplicate" THEN slept ELSE TRUE
                  /\ ops' = r.ops
                  /\ UNCHANGED <<pc, bi>>
    /\ UNCHANGED <<program, source, runNo, leads_collected, sheet, handed, sinkWrites,
                   syncedBefore>>
    /\ UNCHANGED <<retries, endless, answer>>
    /\ RunFrame

\* collect_daily_leads: `if self.sheets and new_leads: append_new_leads(new_leads)`;
\* an exception of append_rows is caught
RT_Sync ==
    /\ program = "realtime" /\ pc = "sync"
    /\ IF delta = <<>>
       THEN UNCHANGED <<sheet, handed, sinkWrites>>
       ELSE \E ok \in BOOLEAN :
              /\ handed' = [done |-> TRUE, rows |-> delta, ok |-> ok]
              /\ sinkWrites' = sinkWrites + 1
              /\ sheet' = IF ok THEN sheet \o delta ELSE sheet
    /\ pc' = "idle"
    /\ UNCHANGED <<program, leads, cand, out, source, runNo, bi, pos, delta,
                   leads_collected, attempts, syncedBefore>>
    /\ UNCHANGED <<retries, slept, endless, ops, answer>>
    /\ RunFrame

\* run_daily_collection (Apollo): `while self.leads_collected < DAILY_TARGET`,
\* search_people for the page answered with 200; no people ends the loop
AP_Page ==
    /\ program = "apollo" /\ pc = "loop"
    /\ IF leads_collected >= Target \/ bi > Len(source) \/ source[bi] = <<>>
       THEN pc' = "sync" /\ pos' = pos
       ELSE pc' = "urls" /\ pos' = 1
    /\ answer' = IF leads_collected >= Target THEN answer
                 ELSE Returned(FALSE, IF bi > Len(source) THEN <<>> ELSE source[bi])
    /\ retries' = 0
    /\ UNCHANGED <<program, leads, cand, out, source, runNo, bi, delta, leads_collected,
                   attempts, sheet, handed, sinkWrites, syncedBefore>>
    /\ UNCHANGED <<slept, endless, ops>>
    /\ RunFrame

\* search_people answered with 429: time.sleep(60), then
\* `return self.search_people(page, per_page)`, one frame deeper
AP_RateLimited ==
    /\ program = "apollo" /\ pc = "loop"
    /\ leads_collected < Target /\ bi <= Len(source)
    /\ retries < RecursionLimit
    /\ retries' = retries + 1
    /\ UNCHANGED <<program, leads, cand, out, source, runNo, pc, bi, pos, delta,
                   leads_collected, attempts, sheet, handed, sinkWrites, syncedBefore,
                   slept, endless, ops, answer>>
    /\ RunFrame

\* search_people returns [], {}: another status, an exception of the request,
\* or the RecursionError of the deepest retry, all caught by `except
\* Exception`; `if not people: break` then ends the loop
AP_SearchFailed ==
    /\ program = "apollo" /\ pc = "loop"
    /\ leads_collected < Target /\ bi <= Len(source)
    /\ pc' = "sync"
    /\ retries' = 0
    /\ answer' = Returned(TRUE, <<>>)
    /\ UNCHANGED <<program, leads, cand, out, source, runNo, bi, pos, delta,
                   leads_collected, attempts, sheet, handed, sinkWrites, syncedBefore,
                   slept, endless, ops>>
    /\ RunFrame

\* run_daily_collection (Apollo): `for person in people`, one person; after the
\* last one the page number moves on and the last page ends the loop.  An
\* exception of extract_lead_data ends the script before the sync.
AP_Person ==
    /\ program = "apollo" /\ pc = "urls"
    /\ LET people == source[bi]
       IN IF pos > Len(people) \/ leads_collected >= Target
          THEN /\ bi' = IF endless THEN (bi % Len(source)) + 1 ELSE bi + 1
               /\ pc' = IF ~endless /\ bi >= Len(source) THEN "sync" ELSE "loop"
               /\ UNCHANGED <<leads, cand, out, pos, delta, leads_collected>>
          ELSE LET person == people[pos]
                   r == apollo_one(leads, person)
               IN /\ leads' = r.tbl
                  /\ out' = r.out
                  /\ cand' = [raw |-> person.id, key |-> person.id, name |-> person.name,
                              failed |-> FALSE]
                  /\ delta' = IF r.out = "new" THEN Append(delta, person.id) ELSE delta
                  /\ leads_collected' = IF r.out = "new" THEN leads_collected + 1
                                        ELSE leads_collected
                  /\ pos' = pos + 1
                  /\ pc' = IF r.out = "error" THEN "idle" ELSE pc
                  /\ bi' = bi
    /\ UNCHANGED <<program, source, runNo, attempts, sheet, handed, sinkWrites,
                   syncedBefore>>
    /\ UNCHANGED <<retries, slept, endless, ops, answer>>
    /\ RunFrame

\* run_daily_collection (Apify): no profiles returns before the sync; otherwise
\* `for profile_data in profiles`, one profile
AF_Profile ==
    /\ program = "apify" /\ pc = "loop"
    /\ LET profiles == source[1]
       IN IF profiles = <<>>
          THEN /\ pc' = "idle"
               /\ UNCHANGED <<leads, cand, out, pos, delta, leads_collected, ops>>
          ELSE IF pos > Len(profiles) \/ leads_collected >= Target
          THEN /\ pc' = "sync"
               /\ UNCHANGED <<leads, cand, out, pos, delta, leads_collected, ops>>
          ELSE LET item == profiles[pos]
                   r == apify_one(leads, item)
               IN /\ leads' = r.tbl
                  /\ out' = r.out
                  /\ cand' = [raw |-> ItemUrl(item), key |-> ItemUrl(item),
                              name |-> item.name, failed |-> FALSE]
                  /\ delta' = IF r.out = "new" THEN Append(delta, ItemUrl(item)) ELSE delta
                  /\ leads_collected' = IF r.out = "new" THEN leads_collected + 1
                                        ELSE leads_collected
                  /\ pos' = pos + 1
                  /\ pc' = pc
                  /\ ops' = r.ops
    /\ ~answer.failed
    /\ answer' = Returned(FALSE, source[1])
    /\ UNCHANGED <<program, source, runNo, bi, attempts, sheet, handed, sinkWrites,
                   syncedBefore>>
    /\ UNCHANGED <<retries, slept, endless>>
    /\ RunFrame

\* _get_dataset_items: a status other than 200 or an exception of the request
\* gives []; run_daily_collection then returns 0 at `if not profiles`
AF_DatasetFailed ==
    /\ program = "apify" /\ pc = "loop"
    /\ ~answer.called
    /\ answer' = Returned(TRUE, <<>>)
    /\ pc' = "idle"
    /\ UNCHANGED <<program, leads, cand, out, source, runNo, bi, pos, delta,
                   leads_collected, attempts, sheet, handed, sinkWrites, syncedBefore,
                   retries, slept, endless, ops>>
    /\ RunFrame

\* main (complete): `for lead in SAMPLE_LEADS: db.insert_lead(lead)`, one lead
CO_Insert ==
    /\ program = "complete" /\ pc = "loop"
    /\ IF pos > Len(source[1])
       THEN /\ pc' = "sync"
            /\ UNCHANGED <<leads, cand, out, pos, delta>>
       ELSE LET i == source[1][pos]
                r == complete_one(leads, i)
            IN /\ leads' = r.tbl
               /\ out' = r.out
               /\ cand' = [raw |-> SAMPLE_LEADS[i].linkedin_url,
                           key |-> SAMPLE_LEADS[i].linkedin_url,
                           name |-> SAMPLE_LEADS[i].name, failed |-> FALSE]
               /\ delta' = IF r.out = "new" THEN Append(delta, SAMPLE_LEADS[i].linkedin_url)
                           ELSE delta
               /\ pos' = pos + 1
               /\ pc' = pc
    /\ UNCHANGED <<program, source, runNo, bi, leads_collected, attempts, sheet, handed,
                   sinkWrites, syncedBefore>>
    /\ UNCHANGED <<retries, slept, endless, ops, answer>>
    /\ RunFrame

\* sync_to_google_sheets: sheet.clear(); sync_leads: batch_clear(['A2:T1000']).
\* An exception is caught by the caller and ends the sync.
SyncClear ==
    /\ program \in {"apollo", "apify", "complete"} /\ pc = "sync"
    /\ \E ok \in BOOLEAN :
         /\ sheet' = IF ok THEN <<>> ELSE sheet
         /\ pc' = IF ok THEN "update" ELSE "idle"
    /\ sinkWrites' = sinkWrites + 1
    /\ UNCHANGED <<program, leads, cand, out, source, runNo, bi, pos, delta,
                   leads_collected, attempts, handed, syncedBefore>>
    /\ UNCHANGED <<retries, slept, endless, ops, answer>>
    /\ RunFrame

\* sync_to_google_sheets: sheet.update('A1', headers + every row of the table);
\* sync_leads(all_leads): append_rows(rows) if there are rows
SyncUpdate ==
    /\ program \in {"apollo", "apify", "complete"} /\ pc = "update"
    /\ LET rows == IF program = "complete" THEN get_all_leads(leads)
                   ELSE SelectForSync(leads)
       IN IF program = "complete" /\ rows = <<>>
          THEN UNCHANGED <<sheet, handed, sinkWrites>>
          ELSE \E ok \in BOOLEAN :
                 /\ handed' = [done |-> TRUE, rows |-> SheetRows(rows), ok |-> ok]
                 /\ sinkWrites' = sinkWrites + 1
                 /\ sheet' = IF ok THEN SheetRows(rows) ELSE sheet
    /\ pc' = "idle"
    /\ UNCHANGED <<program, leads, cand, out, source, runNo, bi, pos, delta,
                   leads_collected, attempts, syncedBefore>>
    /\ UNCHANGED <<retries, slept, endless, ops, answer>>
    /\ RunFrame

NextRun ==
    \/ RunStart \/ RunAgain
    \/ RT_Search \/ RT_SearchFailed \/ RT_Url \/ RT_Sync
    \/ AP_Page \/ AP_RateLimited \/ AP_SearchFailed \/ AP_Person
    \/ AF_Profile \/ AF_DatasetFailed
    \/ CO_Insert
    \/ SyncClear \/ SyncUpdate

SpecRun == InitRun /\ [][NextRun]_vars

\* The runs of apollo_linkedin_scraper.py.  Every request carries a timeout
\* and every sleep ends, so a script that can take a step takes one.
InitApollo == InitRun /\ program = "apollo"

NextApollo ==
    \/ RunStart \/ RunAgain
    \/ AP_Page \/ AP_RateLimited \/ AP_SearchFailed \/ AP_Person
    \/ SyncClear \/ SyncUpdate

SpecApolloFair == InitApollo /\ [][NextApollo]_vars /\ WF_vars(NextApollo)

\* C3: running an entry point a second time against the store the first run
\* left, with identical source outputs, stores no new lead and makes no write
\* call to the sink.
C3_SecondRunDoesNothing ==
    runNo >= 2 => (delta = <<>> /\ sinkWrites = 0)

\* C4: the leads a run hands to the sink are exactly the leads it newly stored
\* (the run delta), and none of them was written to the sink by an earlier run.
C4_SinkReceivesRunDelta ==
    handed.done =>
        /\ Range(handed.rows) = Range(delta)
        /\ Range(handed.rows) \cap syncedBefore = {}

\* C5: the sink is append-only: every step leaves the rows already in the
\* worksheet present, unchanged and in their order.
C5_SinkAppendOnly == [][IsPrefix(sheet, sheet')]_vars

-----------------------------------------------------------------------------
(* Two collectors on one database file                                     *)

MaxCallsPerConn == 2

ConcKeys == {U_a, U_b}

\* the row a collector inserts for a profile URL
ConcRow(prog, url) ==
    IF prog = "realtime"
    THEN LET l == enrich_lead(url, ProfilePage(url))
         IN Row(l.linkedin_url, l.name, l.lead_score, l.priority)
    ELSE Row(url, N_AlB, ApifyLinkedInScraper_calculate_lead_score(AItem(url, MISSING)),
             "none")

InitConc ==
    /\ program \in {"realtime", "apify"}
    /\ leads = <<>> /\ cand = NoCand /\ out = "none"
    /\ ConcIdle
    /\ SideIdle
    /\ ScoreIdle
    /\ RunIdle

\* a collector calls insert_lead (realtime) or process_profile and save_lead
\* (Apify) for a profile URL
ConcCall(c) ==
    /\ conns[c].pc = "idle"
    /\ conns[c].n < MaxCallsPerConn
    /\ \E url \in ConcKeys :
         conns' = [conns EXCEPT ![c] = [pc |-> "check", key |-> url, out |-> "none",
                                        n |-> conns[c].n + 1]]
    /\ UNCHANGED <<program, leads, dblock, pending, reported>>
    /\ ConcFrame

\* is_duplicate: a SELECT, which sees the committed rows
ConcCheck(c) ==
    /\ conns[c].pc = "check"
    /\ conns' = [conns EXCEPT ![c] =
                   IF is_duplicate(leads, conns[c].key)
                   THEN [@ EXCEPT !.pc = "idle", !.out = "duplicate"]
                   ELSE [@ EXCEPT !.pc = "insert"]]
    /\ UNCHANGED <<program, leads, dblock, pending, reported>>
    /\ ConcFrame

\* cursor.execute(INSERT ...): opens a write transaction and takes the write
\* lock; IntegrityError when the UNIQUE constraint refuses the row.  The
\* realtime collector keeps its connection and does not roll back, so the
\* transaction stays open; save_lead (Apify) closes its connection.
ConcInsert(c) ==
    /\ conns[c].pc = "insert"
    /\ dblock \in {0, c}
    /\ LET r == SqlInsert(leads, ConcRow(program, conns[c].key), program = "realtime")
       IN IF r.ok
          THEN /\ pending' = <<ConcRow(program, conns[c].key)>>
               /\ dblock' = c
               /\ conns' = [conns EXCEPT ![c].pc = "commit"]
          ELSE /\ pending' = pending
               /\ dblock' = IF program = "realtime" THEN c ELSE 0
               /\ conns' = [conns EXCEPT ![c].pc = "idle", ![c].out = "failed"]
    /\ UNCHANGED <<program, leads, reported>>
    /\ ConcFrame

\* cursor.execute(INSERT ...) while the other collector holds the write lock:
\* after the busy timeout, OperationalError (database is locked)
ConcLocked(c) ==
    /\ conns[c].pc = "insert"
    /\ dblock \notin {0, c}
    /\ conns' = [conns EXCEPT ![c].pc = "idle", ![c].out = "locked"]
    /\ UNCHANGED <<program, leads, dblock, pending, reported>>
    /\ ConcFrame

\* conn.commit(); return cursor.lastrowid / True
ConcCommit(c) ==
    /\ conns[c].pc = "commit"
    /\ leads' = leads \o pending
    /\ pending' = <<>>
    /\ dblock' = 0
    /\ reported' = Append(reported, conns[c].key)
    /\ conns' = [conns EXCEPT ![c].pc = "idle", ![c].out = "new"]
    /\ UNCHANGED program
    /\ ConcFrame

NextConc ==
    \E c \in Collectors :
        \/ ConcCall(c) \/ ConcCheck(c) \/ ConcInsert(c) \/ ConcLocked(c) \/ ConcCommit(c)

SpecConc == InitConc /\ [][NextConc]_vars

RowsWithKey(k) == {i \in 1..Len(leads) : leads[i].key = k}

\* C2: when two collectors interleave the steps of insert_lead (existence
\* check, INSERT, commit) for the same linkedin_url, at most one call reports
\* the lead as new, and once a call for a key has ended as new, duplicate or
\* refused, exactly one record for that key exists.
C2_AtMostOneCreation ==
    /\ \A i, j \in 1..Len(reported) : i # j => reported[i] # reported[j]
    /\ \A c \in Collectors :
         (conns[c].pc = "idle" /\ conns[c].out \in {"new", "duplicate", "failed"})
             => Cardinality(RowsWithKey(conns[c].key)) = 1

\* C2: both collectors passed the existence check for the same URL before
\* either committed; one reported new, the other was refused by the INSERT
C2_Witness ==
    /\ program = "realtime"
    /\ conns[1].key = conns[2].key
    /\ conns[1].n = 1 /\ conns[2].n = 1
    /\ conns[1].out = "new" /\ conns[2].out = "failed"

-----------------------------------------------------------------------------
(* Properties of the stores                                                *)

\* C1: after any sequence of candidates pushed through a store's write path,
\* in any order and with any repetitions, no two rows of the leads table carry
\* the same identity key (linkedin_url, or apollo_id in the Apollo store).
\* Rows whose key column is NULL carry no identity key.
C1_AtMostOneRecordPerKey ==
    \A i, j \in 1..Len(leads) :
        (i # j /\ leads[i].key # NULL) => leads[i].key # leads[j].key

\* C1: _save_lead, which makes no existence check, has refused a key that the
\* table already holds
C1_Witness ==
    /\ program = "multi"
    /\ out = "failed"
    /\ Len(leads) = 2
    /\ \E i \in 1..Len(leads) : leads[i].key = cand.key /\ cand.key = U_a

RECURSIVE StripLeft(_)
StripLeft(s) == IF s # <<>> /\ Head(s) = " " THEN StripLeft(Tail(s)) ELSE s

RECURSIVE StripRight(_)
StripRight(s) ==
    IF s # <<>> /\ s[Len(s)] = " " THEN StripRight(SubSeq(s, 1, Len(s) - 1)) ELSE s

\* an identity key as the specification compares it: tracking query removed,
\* trimmed, case folded
NormalizeKey(k) == Lower(StripRight(StripLeft(SplitHead(k, <<"?">>))))

\* C6: identity keys are compared after normalization: the table never holds
\* two rows whose URLs differ only in letter case, surrounding whitespace or
\* tracking query parameters.
C6_KeysComparedNormalized ==
    \A i, j \in 1..Len(leads) :
        (i # j /\ Truthy(leads[i].key) /\ Truthy(leads[j].key))
            => NormalizeKey(leads[i].key) # NormalizeKey(leads[j].key)

\* C7: a candidate with no usable identity key (no profile URL or source id;
\* no candidate here carries a company, so there is no name+company pair) is
\* never written to the store: every stored row has a non-empty key.
C7_NoIdentityNeverStored ==
    \A i \in 1..Len(leads) : Truthy(leads[i].key)

\* C9: the priority stored with a lead is the tier of the score stored with it
C9_StoredPriorityIsTierOfScore ==
    \A i \in 1..Len(leads) :
        leads[i].priority # "none" => leads[i].priority = get_priority(leads[i].lead_score)

-----------------------------------------------------------------------------
(* Scenarios of a collection run                                           *)

\* C11: the full-data candidate Ahmed Hassan, IT Director at RAK Ceramics in
\* Ras Al Khaimah, submitted to a store with no record of him, is stored,
\* reported as new, and the stored record carries the tier High or Hot.
C11_FullDataLeadIsHighOrHot ==
    (program = "realtime" /\ cand.name = N_AhmedHassan /\ out = "new") =>
        /\ leads # <<>>
        /\ leads[Len(leads)].key = cand.key
        /\ leads[Len(leads)].priority \in {"High", "Hot"}

\* a candidate goes through the body of the collection loop in this step
CandidateStep == pc \in {"urls", "loop"} /\ pos' = pos + 1

\* C12: when a candidate whose identity key was already accepted in this run
\* is submitted again, it is skipped as a duplicate and neither the store nor
\* the run delta changes; the delta holds each key at most once, and the
\* store holds exactly one record for each key of the delta.
C12_DuplicateSuppressed ==
    /\ [][(CandidateStep /\ cand'.key # NULL /\ cand'.key \in Range(delta)) =>
            (out' = "duplicate" /\ leads' = leads /\ delta' = delta)]_vars
    /\ [](\A i \in 1..Len(delta) : delta[i] # NULL =>
            /\ \A j \in 1..Len(delta) : delta[j] = delta[i] => j = i
            /\ Cardinality(RowsWithKey(delta[i])) = 1)

C12_Witness ==
    /\ program = "realtime" /\ pc = "urls"
    /\ out = "duplicate" /\ cand.key \in Range(delta)
    /\ Cardinality(RowsWithKey(cand.key)) = 1

\* the counters of run_daily_collection: self.leads_collected, page, and the
\* place in the page, with which total_processed advances
RunCounters == <<leads_collected, bi, pos>>

\* C13: when a search is answered with a rate-limit error and repeated, the
\* retry is recorded in the counters of the run, so that the number of
\* retries performed can be read from them when the run has completed.
C13_RetryCountObservable ==
    [][retries' = retries + 1 => RunCounters' # RunCounters]_vars

\* C14: when one query of a run fails with an error that is not retried and
\* further queries remain, the run gives up that query only: it goes on to
\* the next query, and the leads stored so far stay in the store and in the
\* run delta.
C14_FailedQueryIsolated ==
    [][((RT_SearchFailed \/ AP_SearchFailed) /\ (endless \/ bi < Len(source))) =>
         (pc' = "loop" /\ leads' = leads /\ delta' = delta)]_vars

\* C15: whatever the source answers, a collection run that was started comes
\* to its end.
C15_EveryRunEnds == (pc \in {"loop", "urls"}) ~> (pc \in {"sync", "idle"})

\* C17: when a run ends with a publish that succeeded, every lead of the
\* store is in the sink, those accepted by an earlier run whose publish
\* failed included.
C17_FailedPublishDeliveredLater ==
    (pc = "idle" /\ handed.done /\ handed.ok) =>
        \A i \in 1..Len(leads) : leads[i].key \in Range(sheet)

\* C18: every step of a run leaves the records already in the store as they
\* are, in place and with every attribute, and adds at most one record: a
\* duplicate submission, a rejected candidate, a failed query, a failed
\* publish or the end of the run deletes and changes nothing.
C18_CommittedRecordsPersist ==
    [][IsPrefix(leads, leads') /\ Len(leads') <= Len(leads) + 1]_vars

C18_Witness ==
    /\ pc = "idle" /\ leads # <<>>
    /\ out = "duplicate"
    /\ handed.done /\ ~handed.ok

-----------------------------------------------------------------------------
(* Properties of the title bands                                           *)

\* the score the function of the last call gives the lead with another title
ScoreWithTitle(t) ==
    LET l == [lead EXCEPT !.title = t]
    IN IF result.fn = "LeadScorer" THEN LeadScorer_calculate_score(l)
       ELSE IF result.fn = "Apollo" THEN ApolloLeadScraper_calculate_lead_score(l)
       ELSE LeadScoringEngine_calculate_score(l)

\* C19: the title "IT Director" is scored in the Director band and in no
\* higher one: what the title adds to the score of a lead is the Director
\* points of the function (30 of LeadScorer, 30 of the Apollo scraper, 20 of
\* LeadScoringEngine), not its C-suite points.
C19_DirectorScoredInDirectorBand ==
    (/\ result.fn \in {"LeadScorer", "Apollo", "Engine"}
     /\ lead.title = <<"I","T"," ","D","i","r","e","c","t","o","r">>
     /\ result.score # ScoreError /\ result.score < 100) =>
        result.score - ScoreWithTitle(EMPTY) =
            (IF result.fn = "Engine" THEN 20 ELSE 30)

-----------------------------------------------------------------------------
(* Pacing of the requests of collect_daily_leads                           *)

\* a step of collect_daily_leads that sends a request: the Google search of
\* search_linkedin_profiles, or the profile page fetched by enrich_lead
ExternalCallStep ==
    \/ RT_SearchFailed
    \/ (RT_Search /\ pc' = "urls")
    \/ (RT_Url /\ pos' = pos + 1 /\ out' # "duplicate")

\* C20: every request of collect_daily_leads but the first of the run is
\* sent after a delay taken since the request before it, also after a
\* duplicate was skipped, after an empty search and after a failed call.
C20_DelayBetweenCalls == [][ExternalCallStep => slept]_vars

-----------------------------------------------------------------------------
(* Bounds of a collection run                                              *)

\* the leads accepted so far: len(new_leads), resp. self.leads_collected
Accepted == IF program = "realtime" THEN Len(delta) ELSE leads_collected

\* C21: in the runs that have a target the number of accepted leads never
\* exceeds it; once it is reached, the loops of collect_daily_leads and of
\* the Apollo run are left without another candidate, another query or
\* another write to the store; and a run whose queries are used up goes on
\* to its end.
C21_TargetBound ==
    /\ [](program \in {"realtime", "apollo", "apify"} => Accepted <= Target)
    /\ [][(program \in {"realtime", "apollo"}
            /\ Accepted >= Target /\ pc \in {"loop", "urls"}) =>
              /\ leads' = leads /\ delta' = delta /\ cand' = cand
              /\ attempts' = attempts /\ retries' = retries /\ slept' = slept
              /\ answer' = answer
              /\ pc' \in (IF pc = "urls" THEN {"loop", "sync"} ELSE {"sync"})]_vars
    /\ [][(program \in {"realtime", "apollo"} /\ pc = "loop" /\ bi > Len(source)) =>
              pc' = "sync"]_vars

C21_Witness ==
    /\ program = "realtime" /\ pc = "sync"
    /\ Len(delta) = Target /\ bi <= Len(source)
    /\ pos <= Len(RunSearchResult[source[bi - 1]])

\* C26: every run starts with its counter of accepted leads at zero, also a
\* run started on the scraper object of an earlier run, so that what an
\* earlier run collected never lessens what a later run may collect.
C26_CounterResetPerRun == [][runNo' = runNo + 1 => leads_collected' = 0]_vars


-----------------------------------------------------------------------------
(* Order of the steps taken for one candidate                              *)

\* index of the first occurrence of call c in the sequence s, 0 if absent
FirstAt(s, c) ==
    IF \E i \in 1..Len(s) : s[i] = c
    THEN CHOOSE i \in 1..Len(s) : s[i] = c /\ \A j \in 1..(i - 1) : s[j] # c
    ELSE 0

EnrichCalls == {"scrape_linkedin_profile", "calculate_score", "calculate_lead_score"}
WriteCalls == {"insert_lead", "save_lead"}

\* C22: in the realtime and the Apify loop, whatever is done for a candidate
\* starts with the duplicate check; a candidate whose key is already stored
\* causes no enrichment call, no scoring and no store write and is not added
\* to the run delta; the delta grows only by a key whose insert has just
\* put a row into the store
C22_DuplicateCheckFirst ==
    [][(program \in {"realtime", "apify"} /\ CandidateStep) =>
          /\ ops' # <<>> => ops'[1] = "is_duplicate"
          /\ is_duplicate(leads, cand'.key) =>
                /\ \A i \in 1..Len(ops') : ops'[i] \notin EnrichCalls \cup WriteCalls
                /\ leads' = leads /\ delta' = delta
                /\ out' = "duplicate"
          /\ delta' # delta =>
                /\ FirstAt(ops', "is_duplicate") = 1
                /\ \E i \in 1..Len(ops') : ops'[i] \in WriteCalls
                /\ Len(leads') = Len(leads) + 1
                /\ leads'[Len(leads')].key = delta'[Len(delta')]
                /\ out' = "new"]_vars

\* a key stored by the first run comes back in the second run
C22_Witness ==
    /\ program \in {"realtime", "apify"} /\ runNo = 2
    /\ out = "duplicate" /\ ops = <<"is_duplicate">>
    /\ is_duplicate(leads, cand.key)


-----------------------------------------------------------------------------
(* What the source adapters hand to the run                                *)

\* the value an adapter returns for a successful call that found nothing
EmptyResult == <<>>

\* C23: an adapter whose external call failed never returns the value it
\* returns for a successful call without candidates
C23_FailureDistinctFromEmpty ==
    (answer.called /\ answer.failed) => answer.value # EmptyResult


-----------------------------------------------------------------------------
(* WhatsApp inference: ai_hardware_sales_platform.py ContactEnrichment,    *)
(* realtime_linkedin_scraper.py DailyLeadCollector.enrich_lead             *)

\* str.startswith
StartsWith(s, prefix) == Len(s) >= Len(prefix) /\ SubSeq(s, 1, Len(prefix)) = prefix

\* s[a:b] of Python, 0-based and clipped at the end of s
Slice(s, a, b) == SubSeq(s, a + 1, Min(b, Len(s)))

UAE_PREFIX == <<"+","9","7","1">>

\* ContactEnrichment.find_whatsapp: the phone, or NULL for None
find_whatsapp(p) ==
    IF Truthy(p) /\ StartsWith(p, UAE_PREFIX)
    THEN IF Contains(Slice(p, 4, 6), <<"5">>) THEN p ELSE NULL
    ELSE NULL

\* enrich_lead: lead['whatsapp'] after `if '5' in lead['phone']`, '' before
enrich_lead_whatsapp(p) == IF Contains(p, <<"5">>) THEN p ELSE EMPTY

\* phone numbers: with the country code, in national form and from
\* elsewhere, followed by up to MaxTail further characters
MaxTail == 3
TailChars == {"4", "5", " "}
PhoneHeads == {UAE_PREFIX, <<"0">>, <<"+","9","6","6">>}
PhoneTails == UNION {[1..n -> TailChars] : n \in 0..MaxTail}
PhoneNumbers == {h \o t : h \in PhoneHeads, t \in PhoneTails}

InitPhone ==
    /\ phone \in PhoneNumbers
    /\ whatsapp = NoCall
    /\ ScoreIdle /\ StoreIdle /\ RunIdle /\ ConcIdle /\ LinkIdle /\ PollIdle

Call_find_whatsapp ==
    /\ whatsapp' = [fn |-> "find_whatsapp", value |-> find_whatsapp(phone)]
    /\ UNCHANGED <<phone, linkVars, pollVars>>
    /\ SideFrame

\* the phone taken from a company website, checked by enrich_lead
Call_enrich_lead_whatsapp ==
    /\ whatsapp' = [fn |-> "enrich_lead", value |-> enrich_lead_whatsapp(phone)]
    /\ UNCHANGED <<phone, linkVars, pollVars>>
    /\ SideFrame

NextPhone == Call_find_whatsapp \/ Call_enrich_lead_whatsapp

SpecPhone == InitPhone /\ [][NextPhone]_vars

\* the first character after the country code that is no blank, NULL if none
RECURSIVE FirstNonBlank(_)
FirstNonBlank(s) ==
    IF s = EMPTY THEN NULL
    ELSE IF Head(s) = " " THEN FirstNonBlank(Tail(s))
    ELSE <<Head(s)>>

\* +971 followed by the mobile digit 5 in the place of the operator prefix
IsUaeMobile(p) ==
    StartsWith(p, UAE_PREFIX) /\ FirstNonBlank(SubSeq(p, 5, Len(p))) = <<"5">>

\* whether a check marked the phone as WhatsApp-capable
Marked(v) == Truthy(v)

\* C24: a phone is marked WhatsApp-capable exactly when it is +971 followed
\* by the mobile digit 5 in the operator-prefix position, by find_whatsapp
\* and by the check of enrich_lead alike, so the two agree on every phone
C24_WhatsAppOnlyUaeMobile ==
    /\ whatsapp # NoCall => (Marked(whatsapp.value) <=> IsUaeMobile(phone))
    /\ Marked(find_whatsapp(phone)) <=> Marked(enrich_lead_whatsapp(phone))


-----------------------------------------------------------------------------
(* Properties of the company-size sub-score                                *)

\* C25: the size sub-score is monotonic: of two size values the one of the
\* larger organization never gets the smaller sub-score, for every size
\* value the pipeline stores ("500-1000" among them)
C25_SizeScoreMonotonic ==
    /\ result.fn = "Engine" =>
          \A sz \in Sizes : sz[2] <= lead.emp =>
              EN_SizeScore(sz[1]) <= EN_SizeScore(lead.company_size)
    /\ result.fn = "Apollo" =>
          \A sz \in Sizes : sz[2] <= lead.emp => AP_SizeScore(sz[2]) <= AP_SizeScore(lead.emp)


\* C27: the attempts counter of collect_daily_leads never exceeds
\* max_attempts = 3 * target: once it has reached the ceiling no further
\* candidate is processed
C27_AttemptsCeiling == program = "realtime" => attempts <= max_attempts


-----------------------------------------------------------------------------
(* The run delta of collect_daily_leads and the store                      *)

\* C28: new_leads never holds the same linkedin_url twice, every entry has
\* a record in the store, and a candidate enters new_leads exactly when its
\* insert_lead call of this run put a row into the table and returned its id
C28_DeltaMatchesStore ==
    /\ [](program = "realtime" =>
            /\ \A i, j \in 1..Len(delta) : delta[i] = delta[j] => i = j
            /\ \A i \in 1..Len(delta) : \E k \in 1..Len(leads) : leads[k].key = delta[i])
    /\ [][(program = "realtime" /\ pc = "urls") =>
            IF Len(leads') = Len(leads) + 1
            THEN /\ delta' = Append(delta, leads'[Len(leads')].key)
                 /\ cand'.key = leads'[Len(leads')].key
            ELSE leads' = leads /\ delta' = delta]_vars

\* the second run stores a further lead after skipping one of the first run
C28_Witness ==
    /\ program = "realtime" /\ runNo = 2 /\ attempts >= 2
    /\ Len(delta) = 1 /\ Len(leads) >= 2
    /\ leads[Len(leads)].key = delta[1]


-----------------------------------------------------------------------------
(* Outreach: ai_hardware_sales_platform.py LinkedInAutomation and step 5   *)
(* of SalesIntelligencePlatform.daily_lead_generation                      *)

daily_connection_limit == 15
\* sorted(high_quality_leads, ...)[:15]
TopSlice == 15
\* calls of daily_lead_generation on one platform object
MaxGens == 2

\* Mutant: the request is sent and counted whatever the counter says
M_send_connection_request_NoLimit(sent_today) == [ret |-> "True", sent_today |-> sent_today + 1]

\* LinkedInAutomation.send_connection_request: the value returned and the
\* counter afterwards
send_connection_request(sent_today) ==
    IF sent_today >= daily_connection_limit
    THEN [ret |-> "False", sent_today |-> sent_today]
    ELSE [ret |-> "True", sent_today |-> sent_today + 1]

\* LinkedInAutomation is built once, in SalesIntelligencePlatform.__init__
InitLink ==
    /\ connections_sent_today = 0
    /\ top_leads = <<>> /\ ti = 0 /\ success = "none" /\ gens = 0 /\ lpc = "idle"
    /\ ScoreIdle /\ StoreIdle /\ RunIdle /\ ConcIdle /\ PhoneIdle /\ PollIdle

LinkFrame == SideFrame /\ UNCHANGED <<phoneVars, pollVars>>

\* daily_lead_generation up to step 5: the leads are new Lead objects, whose
\* linkedin_connection_sent is False
LI_Generate ==
    /\ lpc = "idle" /\ gens < MaxGens
    /\ \E n \in 0..TopSlice : top_leads' = [i \in 1..n |-> FALSE]
    /\ ti' = 1 /\ gens' = gens + 1 /\ lpc' = "connect"
    /\ UNCHANGED <<connections_sent_today, success>>
    /\ LinkFrame

\* `for lead in top_leads`, one lead; after the last one the function ends
LI_Connect ==
    /\ lpc = "connect"
    /\ IF ti > Len(top_leads)
       THEN /\ lpc' = "idle"
            /\ UNCHANGED <<connections_sent_today, top_leads, ti, success>>
       ELSE IF top_leads[ti]
       THEN /\ ti' = ti + 1
            /\ UNCHANGED <<connections_sent_today, top_leads, success, lpc>>
       ELSE LET r == send_connection_request(connections_sent_today)
            IN /\ success' = r.ret
               /\ connections_sent_today' = r.sent_today
               /\ top_leads' = IF r.ret = "True" THEN [top_leads EXCEPT ![ti] = TRUE]
                                ELSE top_leads
               /\ ti' = ti + 1
               /\ lpc' = lpc
    /\ UNCHANGED gens
    /\ LinkFrame

NextLink == LI_Generate \/ LI_Connect

SpecLink == InitLink /\ [][NextLink]_vars

\* a step of the loop that calls send_connection_request
RequestStep == lpc = "connect" /\ ti' = ti + 1 /\ ~top_leads[ti]

\* C29: connections_sent_today never exceeds daily_connection_limit; a
\* request made at the limit returns False and leaves the counter as it is;
\* a lead is marked linkedin_connection_sent only by a request that
\* returned True
C29_ConnectionLimit ==
    /\ [](connections_sent_today <= daily_connection_limit)
    /\ [][(RequestStep /\ connections_sent_today >= daily_connection_limit) =>
            /\ success' = "False"
            /\ connections_sent_today' = connections_sent_today
            /\ top_leads' = top_leads]_vars
    /\ [][(lpc = "connect" /\ lpc' = "connect" /\ top_leads' # top_leads) =>
            /\ success' = "True"
            /\ connections_sent_today' = connections_sent_today + 1]_vars

\* the second call of the day meets the limit: a request is refused and the
\* lead stays unmarked
C29_Witness ==
    /\ connections_sent_today = daily_connection_limit
    /\ success = "False" /\ gens = 2
    /\ ti > 1 /\ ~top_leads[ti - 1]


-----------------------------------------------------------------------------
(* Polling of an actor run: apify_linkedin_scraper.py                      *)
(* _wait_for_run_completion, apify_multi_scraper.py _wait_and_get_results  *)

\* what one GET of the run's status gives: status 200 with the run's status
\* (RUNNING for every status that is not final), another HTTP status, or an
\* exception of the request
FinalFailed == {"FAILED", "ABORTED", "TIMED-OUT"}
PollAnswers == {"RUNNING", "SUCCEEDED", "HTTP_ERROR", "EXCEPTION"} \cup FinalFailed

\* answers the endpoint gives within the time max_wait / timeout
MaxPolls == 3
PollSequences == UNION {[1..n -> PollAnswers] : n \in 0..MaxPolls}

\* the loop of _wait_for_run_completion from the i-th request on, after
\* `waits` calls of time.sleep(5): "dataset" for what _get_dataset_items
\* returns, "None" for None; the loop ends with None when the time is over
RECURSIVE WaitLoopLinkedIn(_, _, _)
WaitLoopLinkedIn(rs, i, waits) ==
    IF i > Len(rs) THEN [out |-> "None", requests |-> i - 1, waits |-> waits]
    ELSE IF rs[i] = "EXCEPTION" THEN [out |-> "None", requests |-> i, waits |-> waits]
    ELSE IF rs[i] = "HTTP_ERROR" THEN [out |-> "None", requests |-> i, waits |-> waits]
    ELSE IF rs[i] = "SUCCEEDED" THEN [out |-> "dataset", requests |-> i, waits |-> waits]
    ELSE IF rs[i] \in FinalFailed THEN [out |-> "None", requests |-> i, waits |-> waits]
    ELSE WaitLoopLinkedIn(rs, i + 1, waits + 1)

wait_for_run_completion(rs) == WaitLoopLinkedIn(rs, 1, 0)

\* the loop of _wait_and_get_results: `if response.status_code == 200` has
\* no else, another status leads straight to the next request
RECURSIVE WaitLoopMulti(_, _, _)
WaitLoopMulti(rs, i, waits) ==
    IF i > Len(rs) THEN [out |-> "None", requests |-> i - 1, waits |-> waits]
    ELSE IF rs[i] = "EXCEPTION" THEN [out |-> "None", requests |-> i, waits |-> waits]
    ELSE IF rs[i] = "HTTP_ERROR" THEN WaitLoopMulti(rs, i + 1, waits)
    ELSE IF rs[i] = "SUCCEEDED" THEN [out |-> "dataset", requests |-> i, waits |-> waits]
    ELSE IF rs[i] \in FinalFailed THEN [out |-> "None", requests |-> i, waits |-> waits]
    ELSE WaitLoopMulti(rs, i + 1, waits + 1)

wait_and_get_results(rs) == WaitLoopMulti(rs, 1, 0)

InitPoll ==
    /\ responses \in PollSequences
    /\ polled = NoCall
    /\ ScoreIdle /\ StoreIdle /\ RunIdle /\ ConcIdle /\ PhoneIdle /\ LinkIdle

PollFrame == SideFrame /\ UNCHANGED <<phoneVars, linkVars, responses>>

Call_wait_for_run_completion ==
    /\ polled' = [fn |-> "_wait_for_run_completion",
                  res |-> wait_for_run_completion(responses)]
    /\ PollFrame

Call_wait_and_get_results ==
    /\ polled' = [fn |-> "_wait_and_get_results", res |-> wait_and_get_results(responses)]
    /\ PollFrame

NextPoll == Call_wait_for_run_completion \/ Call_wait_and_get_results

SpecPoll == InitPoll /\ [][NextPoll]_vars

\* index of the first answer that is not RUNNING, 0 if there is none
FirstDecisive(rs) ==
    IF \E i \in 1..Len(rs) : rs[i] # "RUNNING"
    THEN CHOOSE i \in 1..Len(rs) : rs[i] # "RUNNING" /\ \A j \in 1..(i - 1) : rs[j] = "RUNNING"
    ELSE 0

\* C30: a wait returns dataset items only after the status SUCCEEDED; a
\* final status FAILED, ABORTED or TIMED-OUT, a non-200 answer and a request
\* exception end the polling at once, with failure and without a further
\* request; each answer of a run in progress is followed by a wait; and
\* _wait_for_run_completion and _wait_and_get_results give the same outcome
\* for the same sequence of answers
C30_PollingOutcome ==
    /\ polled # NoCall =>
          LET k == FirstDecisive(responses)
          IN /\ polled.res.out = "dataset" <=> (k # 0 /\ responses[k] = "SUCCEEDED")
             /\ k # 0 => polled.res.requests = k /\ polled.res.waits = k - 1
             /\ k = 0 => polled.res.out = "None" /\ polled.res.waits = Len(responses)
    /\ wait_for_run_completion(responses) = wait_and_get_results(responses)

=============================================================================
